---- MODULE Spec2Model ----
(***************************************************************************)
(* Verification model of the price-projection program (src/ai/train1.py)   *)
(* and of the single-postcode predictor                                    *)
(* (src/server/predictor/predict_price.py).                                *)
(*                                                                         *)
(* Six state machines share this module:                                   *)
(*   SpecPostcode  the pure postcode functions (district, sector)          *)
(*   SpecIngest    preprocess_price_data, engineer_features and the        *)
(*                 process-wide GLOBAL_MIN_DATE                            *)
(*   SpecRerun     the same pipeline run again on an input it has seen     *)
(*   SpecTrain     the feature selection of train_model                    *)
(*   Spec          predict_future_prices: validation, the per-month        *)
(*                 projection loop and its per-request history             *)
(*   SpecLite      one run of predict_price.py                             *)
(***************************************************************************)
EXTENDS Integers, Sequences, FiniteSets, TLC

VARIABLES
    \* ---- postcode functions ----
    pcIn,         \* the postcode argument (a sequence of characters, or NoneStr)
    pcDistrict,   \* result of get_postcode_district (NoneStr for None)
    pcSector,     \* result of get_postcode_sector (NoneStr for None)
    pcPhase,      \* "in" | "district" | "sector" : which calls have returned
    \* ---- ingestion and feature engineering ----
    GLOBAL_MIN_DATE,  \* process-wide anchor (NaN while unset)
    ingested,         \* every raw record handed to preprocess_price_data so far
    agg_df,           \* the panel the last preprocess_price_data call returned
    ingCount,         \* how many raw records were handed in so far
    raw_df,           \* the raw records of the last preprocess_price_data call
    fe_in,            \* the frame handed to the last engineer_features call
    fe_df,            \* the panel the last engineer_features call returned
    ingPhase,         \* "start" | "preprocessed" | "engineered" : last call made
    runs,             \* <<raw records, engineered panel>> of the runs of the
                      \* pipeline preprocess_price_data, engineer_features
                      \* that SpecRerun follows
    \* ---- what the caller of predict_future_prices holds ----
    historical_data,  \* the engineered panel (NoneFrame for None)
    certs_agg_df,     \* the aggregated certificate table (NoneFrame for None)
    \* ---- one call of predict_future_prices ----
    args,             \* its arguments (NoCall while there is no call)
    historical_df_full, \* the frame the caller passed, as the caller sees it
    before,           \* <<historical_df_full, certs_agg_df>> as they were at the call
    pstate,           \* "idle" | "loop" | "done"
    step,             \* iterations of the loop that ran to their end
    fault,            \* where the iteration that ended the loop raised, or "none"
    last_known_date,
    history_level,
    static_cert_features,
    current_history,  \* the per-request history
    predictions,      \* the rows computed so far
    predict_X,        \* the feature row of the last prediction
    result,           \* what the call returned (NoCall while it has not)
    \* ---- one call of train_model ----
    train_in,         \* the frame it is given: its columns, their dtypes, ...
    train_out,        \* the feature list it returned, or Raised
    \* ---- one run of predict_price.py ----
    lite_in,          \* what the run finds: config files, stdin, clock, model
    lite_pos,         \* "idle" | "start" | "loop" | "final" | "done"
    num_years_to_predict,
    borough,          \* what find_borough returned ("None" for None)
    user_input_df,    \* the one-row frame of the request (<< >> before it is built)
    year_offset,      \* the loop variable
    user_input_engineered_df,  \* the feature row of the last iteration
    predicted_price_current_year,
    results_list,
    error_output,     \* NoError for None
    stdout,           \* the objects printed to stdout
    escaped           \* the exception that left main uncaught ("None" if none)

pcVars == <<pcIn, pcDistrict, pcSector, pcPhase>>
ingVars == <<GLOBAL_MIN_DATE, ingested, ingCount, raw_df, agg_df, fe_in, fe_df, ingPhase, runs>>
callVars == <<args, historical_df_full, before, pstate, step, fault, last_known_date, history_level,
              static_cert_features, current_history, predictions, predict_X, result>>

trainVars == <<train_in, train_out>>
liteVars == <<lite_in, lite_pos, num_years_to_predict, borough, user_input_df, year_offset,
              user_input_engineered_df, predicted_price_current_year, results_list,
              error_output, stdout, escaped>>
extVars == <<trainVars, liteVars>>

vars == <<pcIn, pcDistrict, pcSector, pcPhase,
          GLOBAL_MIN_DATE, ingested, ingCount, raw_df, agg_df, fe_in, fe_df, ingPhase, runs,
          historical_data, certs_agg_df,
          args, historical_df_full, before, pstate, step, fault, last_known_date,
          history_level, static_cert_features, current_history, predictions,
          predict_X, result,
          train_in, train_out,
          lite_in, lite_pos, num_years_to_predict, borough, user_input_df, year_offset,
          user_input_engineered_df, predicted_price_current_year, results_list,
          error_output, stdout, escaped>>

(***************************************************************************)
(* Strings are sequences of one-character strings.                         *)
(***************************************************************************)
MaxPcLen == 6

UpperLetters == {"A", "B"}
LowerLetters == {"a"}
Digits       == {"1", "2"}
Blank        == " "
Tab          == "\t"
Whitespace   == {Blank, Tab}
\* The characters the bounded strings of SpecPostcode are built from.
Alphabet     == {"A", "a", "1", Blank, Tab}

\* Python's None / a pandas NA given as the postcode.
NoneStr == <<"None">>

RECURSIVE StrOfLen(_)
StrOfLen(n) ==
    IF n = 0 THEN {<< >>}
    ELSE {Append(s, c) : s \in StrOfLen(n - 1), c \in Alphabet}

Strings(maxLen) == UNION {StrOfLen(n) : n \in 0..maxLen}

\* str.upper()
UpperChar(c) == IF c \in LowerLetters THEN "A" ELSE c
Upper(s) == [i \in 1..Len(s) |-> UpperChar(s[i])]

\* str.strip(): leading and trailing whitespace removed
RECURSIVE LStrip(_)
LStrip(s) == IF s # << >> /\ Head(s) \in Whitespace THEN LStrip(Tail(s)) ELSE s
RECURSIVE RStrip(_)
RStrip(s) ==
    IF s # << >> /\ s[Len(s)] \in Whitespace
    THEN RStrip(SubSeq(s, 1, Len(s) - 1)) ELSE s
Strip(s) == RStrip(LStrip(s))

\* str.split(' '): the parts between single blanks (empty parts are kept)
RECURSIVE SplitAcc(_, _, _)
SplitAcc(s, cur, acc) ==
    IF s = << >> THEN Append(acc, cur)
    ELSE IF Head(s) = Blank THEN SplitAcc(Tail(s), << >>, Append(acc, cur))
    ELSE SplitAcc(Tail(s), Append(cur, Head(s)), acc)
SplitBlank(s) == SplitAcc(s, << >>, << >>)

\* str.replace(' ', '')
RemoveBlanks(s) == SelectSeq(s, LAMBDA c : c # Blank)

IsLetter(c) == c \in UpperLetters \cup LowerLetters
IsDigit(c)  == c \in Digits
IsAlnum(c)  == IsLetter(c) \/ IsDigit(c)

\* ^[A-Z]{1,2}[0-9][A-Z0-9]?$ (case-insensitive)
IsOutward(g) ==
    \/ Len(g) = 2 /\ IsLetter(g[1]) /\ IsDigit(g[2])
    \/ Len(g) = 3 /\ IsLetter(g[1]) /\ IsDigit(g[2]) /\ IsAlnum(g[3])
    \/ Len(g) = 3 /\ IsLetter(g[1]) /\ IsLetter(g[2]) /\ IsDigit(g[3])
    \/ Len(g) = 4 /\ IsLetter(g[1]) /\ IsLetter(g[2]) /\ IsDigit(g[3]) /\ IsAlnum(g[4])

\* re.match(r'^([A-Z]{1,2}[0-9][A-Z0-9]?)\s*([0-9])[A-Z]{2}$', s): the string ends
\* in digit-letter-letter, preceded by a whitespace run, preceded by group 1.
\* Group 1 holds no whitespace, so the split is unique.
SectorGroup1(s) == RStrip(SubSeq(s, 1, Len(s) - 3))
SectorRegexMatches(s) ==
    /\ Len(s) >= 3
    /\ IsDigit(s[Len(s) - 2]) /\ IsLetter(s[Len(s) - 1]) /\ IsLetter(s[Len(s)])
    /\ IsOutward(SectorGroup1(s))

get_outward_code(postcode) ==
    IF postcode = NoneStr THEN NoneStr
    ELSE LET parts == SplitBlank(Upper(Strip(postcode)))
         IN  IF Len(parts) > 0 /\ parts[1] # << >> THEN parts[1] ELSE NoneStr

get_postcode_district(postcode) == get_outward_code(postcode)

get_postcode_sector(postcode) ==
    IF postcode = NoneStr THEN NoneStr
    ELSE LET s == Upper(Strip(postcode))
             parts == SplitBlank(s)
         IN  IF SectorRegexMatches(s)
             THEN SectorGroup1(s) \o <<Blank, s[Len(s) - 2]>>
             ELSE IF Len(parts) = 2 /\ parts[1] # << >> /\ Len(parts[2]) > 0
             THEN parts[1] \o <<Blank, parts[2][1]>>
             ELSE IF Len(parts) = 1 /\ Len(parts[1]) > 1 /\ IsOutward(parts[1])
             THEN parts[1]
             ELSE NoneStr

IsPrefix(p, s) == Len(p) <= Len(s) /\ SubSeq(s, 1, Len(p)) = p

(***************************************************************************)
(* Values.  Prices are whole currency units, dates are month numbers       *)
(* (year * 12 + month - 1; the day of the month plays no part in any       *)
(* computation of the program but the minimum, which the model takes at    *)
(* month granularity), logarithms are in thousandths, ratios and shares    *)
(* are in thousandths (1000 is the ratio 1.0).                             *)
(***************************************************************************)
NaN == -999999
BadDate == NaN - 1         \* a date string pd.to_datetime cannot parse

isna(v)  == v = NaN
notna(v) == v # NaN

\* DataFrame.fillna / Series.fillna with a scalar or an aligned series value
fillna(v, d) == IF isna(v) THEN d ELSE v

Lags    == {1, 3, 6, 12, 18}
Windows == {3, 6, 12}
MaxLag  == CHOOSE l \in Lags : \A k \in Lags : k <= l

\* Python compares strings by code point: tab < blank < digits < letters
CharRank(c) ==
    CASE c = Tab -> 0 [] c = Blank -> 1 [] c = "1" -> 2 [] c = "2" -> 3
      [] c = "A" -> 4 [] c = "B" -> 5 [] c = "N" -> 6 [] OTHER -> 7

RECURSIVE StrLess(_, _)
StrLess(a, b) ==
    IF b = << >> THEN FALSE
    ELSE IF a = << >> THEN TRUE
    ELSE IF Head(a) = Head(b) THEN StrLess(Tail(a), Tail(b))
    ELSE CharRank(Head(a)) < CharRank(Head(b))

RECURSIVE SumSeq(_)
SumSeq(s) == IF s = << >> THEN 0 ELSE Head(s) + SumSeq(Tail(s))

\* the indices of a set, ascending
RECURSIVE AscSeq(_)
AscSeq(S) ==
    IF S = {} THEN << >>
    ELSE LET m == CHOOSE x \in S : \A y \in S : x <= y
         IN  <<m>> \o AscSeq(S \ {m})

\* Series.median(): the middle value, or the mean of the two middle values
Median(vals) ==
    LET s == SortSeq(vals, LAMBDA a, b : a < b)
        n == Len(s)
    IN  IF n % 2 = 1 THEN s[(n + 1) \div 2]
        ELSE (s[n \div 2] + s[(n \div 2) + 1]) \div 2

\* np.log1p of a price, in thousandths
log1p(p) ==
    CASE p = 0 -> 0
      [] p = 2000 -> 7601
      [] p = 2500 -> 7824
      [] p = 3000 -> 8007
      [] p = 3500 -> 8161
      [] p = 4000 -> 8294
      [] OTHER -> 7000 + (p \div 1000)

\* YearMonth -> year, month
YearOf(ym)  == ym \div 12
MonthOf(ym) == (ym % 12) + 1

(***************************************************************************)
(* preprocess_price_data                                                   *)
(***************************************************************************)
\* load_price_data's prop_type_map; a code it does not hold maps to 'Other'
PropTypeMap(code) ==
    CASE code = "D" -> "Detached" [] code = "S" -> "Semi-Detached"
      [] code = "T" -> "Terraced" [] code = "F" -> "Flat"
      [] code = "O" -> "Other" [] OTHER -> "Other"

EmptyFrame == << >>

\* pd.to_datetime(errors='coerce')
to_datetime(d) == IF d = BadDate THEN NaN ELSE d

\* lines 121-127: the required columns hold a value, and the date parses
DropRequiredNa(df) ==
    SelectSeq(df, LAMBDA r : r.Postcode # NoneStr /\ notna(r.Price)
                             /\ notna(r.Date) /\ r.PropType # "NaN")
DateParsed(df) ==
    SelectSeq([i \in 1..Len(df) |-> [df[i] EXCEPT !.Date = to_datetime(df[i].Date)]],
              LAMBDA r : notna(r.Date))

MinDate(df) == CHOOSE d \in {df[i].Date : i \in 1..Len(df)} :
                   \A i \in 1..Len(df) : d <= df[i].Date

\* lines 129-133: the rows the minimum is taken over are those with a date
MinDateRows(df) == DateParsed(DropRequiredNa(df))

\* lines 115-136: GLOBAL_MIN_DATE after a call on df
NewGlobalMinDate(gmd, df) ==
    IF df = EmptyFrame \/ MinDateRows(df) = EmptyFrame THEN gmd
    ELSE LET current_min_date == MinDate(MinDateRows(df))
         IN  IF isna(gmd) \/ current_min_date < gmd THEN current_min_date ELSE gmd

\* lines 139-154: postcode columns, the price filter, the month and the type
PostcodeParsed(df) ==
    SelectSeq([i \in 1..Len(df) |->
                 LET pc == Upper(Strip(df[i].Postcode))
                 IN  [Price |-> df[i].Price,
                      YearMonth |-> df[i].Date,
                      Postcode_Clean |-> RemoveBlanks(pc),
                      PostcodeDistrict |-> get_postcode_district(pc),
                      PostcodeSector |-> get_postcode_sector(pc),
                      PropTypeMapped |-> PropTypeMap(df[i].PropType)]],
              LAMBDA r : r.PostcodeDistrict # NoneStr /\ r.PostcodeSector # NoneStr)

PriceFilter(df) == SelectSeq(df, LAMBDA r : r.Price > 1000)

Cleaned(df) == PriceFilter(PostcodeParsed(MinDateRows(df)))

\* the sort order of a groupby over (Postcode_Clean, PostcodeSector,
\* PostcodeDistrict, YearMonth)
BaseKeyLess(a, b) ==
    IF a[1] # b[1] THEN StrLess(a[1], b[1])
    ELSE IF a[2] # b[2] THEN StrLess(a[2], b[2])
    ELSE IF a[3] # b[3] THEN StrLess(a[3], b[3])
    ELSE a[4] < b[4]

BaseKeys(df) ==
    {<<df[i].Postcode_Clean, df[i].PostcodeSector, df[i].PostcodeDistrict,
       df[i].YearMonth>> : i \in 1..Len(df)}

RECURSIVE SortKeys(_)
SortKeys(K) ==
    IF K = {} THEN << >>
    ELSE LET m == CHOOSE x \in K : \A y \in K \ {x} : BaseKeyLess(x, y)
         IN  <<m>> \o SortKeys(K \ {m})

\* the prices of the rows a predicate selects, and their number
PricesWhere(df, P(_)) ==
    LET idx == AscSeq({i \in 1..Len(df) : P(df[i])})
    IN  [k \in 1..Len(idx) |-> df[idx[k]].Price]

\* pd.get_dummies: one column per mapped type present in the cleaned rows
TypesIn(df) == {df[i].PropTypeMapped : i \in 1..Len(df)}
TypeSums(df, P(_)) ==
    [t \in TypesIn(df) |->
        Cardinality({i \in 1..Len(df) : P(df[i]) /\ df[i].PropTypeMapped = t})]

\* lines 167-213: one row per base key, with the sector and district
\* aggregates of its month and the property-type sums merged onto it
AggRow(df, key) ==
    LET inPc(r)   == /\ r.Postcode_Clean = key[1] /\ r.PostcodeSector = key[2]
                     /\ r.PostcodeDistrict = key[3] /\ r.YearMonth = key[4]
        inSec(r)  == r.PostcodeSector = key[2] /\ r.YearMonth = key[4]
        inDist(r) == r.PostcodeDistrict = key[3] /\ r.YearMonth = key[4]
        inPcT(r)  == r.Postcode_Clean = key[1] /\ r.YearMonth = key[4]
    IN  [Postcode |-> key[1],
         PostcodeSector |-> key[2],
         PostcodeDistrict |-> key[3],
         YearMonth |-> key[4],
         MedianPrice_Postcode |-> Median(PricesWhere(df, inPc)),
         TransactionCount_Postcode |-> Len(PricesWhere(df, inPc)),
         MedianPrice_Sector |-> Median(PricesWhere(df, inSec)),
         TransactionCount_Sector |-> Len(PricesWhere(df, inSec)),
         MedianPrice_District |-> Median(PricesWhere(df, inDist)),
         TransactionCount_District |-> Len(PricesWhere(df, inDist)),
         PropType_PC_Sum |-> TypeSums(df, inPcT),
         PropType_SEC_Sum |-> TypeSums(df, inSec),
         PropType_DIST_Sum |-> TypeSums(df, inDist)]

\* drop_duplicates that keeps every row
drop_duplicates_keep_all(rows, seen) == rows

\* line 227: drop_duplicates(subset=['Postcode', 'YearMonth'], keep='first')
RECURSIVE drop_duplicates(_, _)
drop_duplicates(rows, seen) ==
    IF rows = << >> THEN << >>
    ELSE LET k == <<Head(rows).Postcode, Head(rows).YearMonth>>
         IN  IF k \in seen THEN drop_duplicates(Tail(rows), seen)
             ELSE <<Head(rows)>> \o drop_duplicates(Tail(rows), seen \cup {k})

preprocess_price_data(df) ==
    IF df = EmptyFrame THEN EmptyFrame
    ELSE IF MinDateRows(df) = EmptyFrame THEN EmptyFrame
    ELSE LET c == Cleaned(df)
             keys == SortKeys(BaseKeys(c))
         IN  IF c = EmptyFrame THEN EmptyFrame
             ELSE drop_duplicates([k \in 1..Len(keys) |-> AggRow(c, keys[k])], {})

(***************************************************************************)
(* combine_data                                                            *)
(*                                                                         *)
(* The aggregated certificate table is given (load_and_process_certificates*)
(* reads it from a file): one row per postcode.  Of its seven columns the  *)
(* model carries one numeric column (Cert_TOTAL_FLOOR_AREA_Agg) and one    *)
(* categorical column (Cert_TENURE_Agg); the code treats the other numeric *)
(* column like the first and the other categorical columns like the second.*)
(***************************************************************************)
NoneFrame == <<[None |-> TRUE]>>

CertRow(postcode, area, tenure) ==
    [Postcode |-> postcode, Cert_TOTAL_FLOOR_AREA_Agg |-> area, Cert_TENURE_Agg |-> tenure]

\* Series.astype(str) on a column of strings
astype_str(v) == v

\* lines 327-328 and 831: certs_agg_df['Postcode'] is rewritten in place
CertsAfterAstype(certs) ==
    IF certs = NoneFrame THEN certs
    ELSE [i \in 1..Len(certs) |-> [certs[i] EXCEPT !.Postcode = astype_str(@)]]

\* lines 329-347: the left merge on Postcode; a postcode without a
\* certificate row gets missing values, and without a certificate table
\* the placeholders 'Unknown' (categorical) and NaN (numeric)
CertColumns(certs, postcode) ==
    IF certs = NoneFrame \/ certs = EmptyFrame
    THEN [Cert_TOTAL_FLOOR_AREA_Agg |-> NaN, Cert_TENURE_Agg |-> "Unknown"]
    ELSE LET hit == {j \in 1..Len(certs) : certs[j].Postcode = postcode}
         IN  IF hit = {}
             THEN [Cert_TOTAL_FLOOR_AREA_Agg |-> NaN, Cert_TENURE_Agg |-> "NaN"]
             ELSE LET j == CHOOSE x \in hit : \A y \in hit : x <= y
                  IN  [Cert_TOTAL_FLOOR_AREA_Agg |-> certs[j].Cert_TOTAL_FLOOR_AREA_Agg,
                       Cert_TENURE_Agg |-> certs[j].Cert_TENURE_Agg]

combine_data(agg_price_df, certs) ==
    IF agg_price_df = NoneFrame \/ agg_price_df = EmptyFrame THEN EmptyFrame
    ELSE [i \in 1..Len(agg_price_df) |->
             agg_price_df[i] @@ CertColumns(certs, agg_price_df[i].Postcode)]

(***************************************************************************)
(* engineer_features                                                       *)
(***************************************************************************)
\* line 370: sort_values(by=[PostcodeDistrict, PostcodeSector, Postcode, YearMonth])
FrameKeyLess(a, b) ==
    IF a.PostcodeDistrict # b.PostcodeDistrict
    THEN StrLess(a.PostcodeDistrict, b.PostcodeDistrict)
    ELSE IF a.PostcodeSector # b.PostcodeSector
    THEN StrLess(a.PostcodeSector, b.PostcodeSector)
    ELSE IF a.Postcode # b.Postcode THEN StrLess(a.Postcode, b.Postcode)
    ELSE a.YearMonth < b.YearMonth

sort_values(df) == SortSeq(df, FrameKeyLess)

\* df.groupby(group_col)[col].shift(lag) at row i: the value `lag` rows up
\* among the rows of the frame that share row i's group, NaN when there are
\* fewer than `lag` such rows above it
GroupShift(df, i, group_col, col, lag) ==
    LET above == AscSeq({j \in 1..(i - 1) : df[j][group_col] = df[i][group_col]})
    IN  IF Len(above) >= lag THEN df[above[Len(above) - lag + 1]][col] ELSE NaN

\* df.groupby(group_col)[col].shift(1).rolling(window, min_periods=1).sum()
\* at row i: the rolling window runs over the rows of the whole frame
RollingAfterShift(df, i, group_col, col, window) ==
    LET lo == IF i - window + 1 < 1 THEN 1 ELSE i - window + 1
        shifted == [j \in lo..i |-> GroupShift(df, j, group_col, col, 1)]
        present == {j \in lo..i : notna(shifted[j])}
        idx == AscSeq(present)
    IN  IF present = {} THEN NaN
        ELSE SumSeq([k \in 1..Len(idx) |-> shifted[idx[k]]])

\* the same for one property-type sum column of a level
TypeShift(df, i, group_col, sum_col, t, lag) ==
    LET above == AscSeq({j \in 1..(i - 1) : df[j][group_col] = df[i][group_col]})
    IN  IF Len(above) >= lag THEN df[above[Len(above) - lag + 1]][sum_col][t] ELSE NaN

TypeRollingAfterShift(df, i, group_col, sum_col, t, window) ==
    LET lo == IF i - window + 1 < 1 THEN 1 ELSE i - window + 1
        shifted == [j \in lo..i |-> TypeShift(df, j, group_col, sum_col, t, 1)]
        present == {j \in lo..i : notna(shifted[j])}
        idx == AscSeq(present)
    IN  IF present = {} THEN NaN
        ELSE SumSeq([k \in 1..Len(idx) |-> shifted[idx[k]]])

\* lines 404-412: num / den.replace(0, NaN), NaN and inf filled with 1.0
PriceRatio(num, den) ==
    IF isna(num) \/ isna(den) \/ den = 0 THEN 1000 ELSE (num * 1000) \div den

\* line 510: share of a type in the rolling window, 0 on a zero denominator
PercShare(pt_sum, total) ==
    IF isna(pt_sum) \/ isna(total) \/ total = 0 THEN 0 ELSE (pt_sum * 1000) \div total

\* lines 381-412: target, calendar features, anchors and current ratios
WithBase(df, gmd) ==
    [i \in 1..Len(df) |->
        df[i] @@
        [LogMedianPrice_Postcode |-> log1p(df[i].MedianPrice_Postcode),
         Year |-> YearOf(df[i].YearMonth),
         Month |-> MonthOf(df[i].YearMonth),
         MonthsSinceStart |-> (YearOf(df[i].YearMonth) - YearOf(gmd)) * 12
                                + MonthOf(df[i].YearMonth) - MonthOf(gmd),
         MedianPrice_Sector_Anchor_Lag1m |->
             GroupShift(df, i, "PostcodeSector", "MedianPrice_Sector", 1),
         MedianPrice_District_Anchor_Lag1m |->
             GroupShift(df, i, "PostcodeDistrict", "MedianPrice_District", 1),
         PriceRatio_PC_SEC |->
             PriceRatio(df[i].MedianPrice_Postcode, df[i].MedianPrice_Sector),
         PriceRatio_SEC_DIST |->
             PriceRatio(df[i].MedianPrice_Sector, df[i].MedianPrice_District)]]

\* lines 416-442: the raw lag columns (NaN where the group is too short)
RawLags(b, i) ==
    [LogPrice_PC_Lag   |-> [l \in Lags |-> GroupShift(b, i, "Postcode", "LogMedianPrice_Postcode", l)],
     RatioPcS_PC_Lag   |-> [l \in Lags |-> GroupShift(b, i, "Postcode", "PriceRatio_PC_SEC", l)],
     RatioSecD_SEC_Lag |-> [l \in Lags |-> GroupShift(b, i, "PostcodeSector", "PriceRatio_SEC_DIST", l)],
     CountPc_PC_Lag    |-> [l \in Lags |-> GroupShift(b, i, "Postcode", "TransactionCount_Postcode", l)],
     CountSec_SEC_Lag  |-> [l \in Lags |-> GroupShift(b, i, "PostcodeSector", "TransactionCount_Sector", l)],
     CountDist_DIST_Lag |-> [l \in Lags |-> GroupShift(b, i, "PostcodeDistrict", "TransactionCount_District", l)]]

\* FilledLags with every missing count lag set to 0, no level consulted
FilledLags_zero_only(raw) ==
    [LogPrice_PC_Lag   |-> [l \in Lags |-> fillna(raw.LogPrice_PC_Lag[l], 0)],
     RatioPcS_PC_Lag   |-> [l \in Lags |-> fillna(raw.RatioPcS_PC_Lag[l], 1000)],
     RatioSecD_SEC_Lag |-> [l \in Lags |-> fillna(raw.RatioSecD_SEC_Lag[l], 1000)],
     CountPc_PC_Lag    |-> [l \in Lags |-> fillna(raw.CountPc_PC_Lag[l], 0)],
     CountSec_SEC_Lag  |-> [l \in Lags |-> fillna(raw.CountSec_SEC_Lag[l], 0)],
     CountDist_DIST_Lag |-> [l \in Lags |-> fillna(raw.CountDist_DIST_Lag[l], 0)]]

\* lines 445-466: the hierarchical fill, in the order the code runs it:
\* postcode <- sector, sector <- district, postcode <- district, then 0;
\* ratio lags <- 1.0; log-price lags <- 0.0
FilledLags(raw) ==
    LET pc1(l)  == fillna(raw.CountPc_PC_Lag[l], raw.CountSec_SEC_Lag[l])
        sec1(l) == fillna(raw.CountSec_SEC_Lag[l], raw.CountDist_DIST_Lag[l])
        pc2(l)  == fillna(pc1(l), raw.CountDist_DIST_Lag[l])
    IN  [LogPrice_PC_Lag   |-> [l \in Lags |-> fillna(raw.LogPrice_PC_Lag[l], 0)],
         RatioPcS_PC_Lag   |-> [l \in Lags |-> fillna(raw.RatioPcS_PC_Lag[l], 1000)],
         RatioSecD_SEC_Lag |-> [l \in Lags |-> fillna(raw.RatioSecD_SEC_Lag[l], 1000)],
         CountPc_PC_Lag    |-> [l \in Lags |-> fillna(pc2(l), 0)],
         CountSec_SEC_Lag  |-> [l \in Lags |-> fillna(sec1(l), 0)],
         CountDist_DIST_Lag |-> [l \in Lags |-> fillna(raw.CountDist_DIST_Lag[l], 0)]]

\* lines 470-517: rolling counts and rolling property-type shares of a level
RollingCount(b, i, group_col, count_col) ==
    [w \in Windows |-> fillna(RollingAfterShift(b, i, group_col, count_col, w), 0)]

RollingPerc(b, i, group_col, count_col, sum_col) ==
    [t \in DOMAIN b[i][sum_col] |->
        [w \in Windows |->
            PercShare(fillna(TypeRollingAfterShift(b, i, group_col, sum_col, t, w), 0),
                      fillna(RollingAfterShift(b, i, group_col, count_col, w), 0))]]

\* lines 547-571: a categorical certificate column has its missing values
\* and the synonyms of "no data" replaced by 'Unknown'; a numeric one has
\* its missing values replaced by the median of the column over the whole
\* frame, or by 0 when the column holds no value at all
UnknownSynonyms == {"NaN", "nan", "NONE", "N/A", "", "NULL", "NO DATA!", "INVALID!"}
CertCategory(v) == IF v \in UnknownSynonyms THEN "Unknown" ELSE v
CertNumericFill(b, col) ==
    LET idx == AscSeq({j \in 1..Len(b) : notna(b[j][col])})
    IN  IF Len(idx) = 0 THEN 0 ELSE Median([k \in 1..Len(idx) |-> b[idx[k]][col]])

\* one row with every engineered column, before the final cleanup
Engineered(b, i) ==
    LET f == FilledLags(RawLags(b, i))
    IN  [base |-> [b[i] EXCEPT !.MedianPrice_Sector_Anchor_Lag1m =
                       fillna(b[i].MedianPrice_Sector_Anchor_Lag1m,
                              b[i].MedianPrice_District_Anchor_Lag1m),
                              !.Cert_TENURE_Agg = CertCategory(@),
                              !.Cert_TOTAL_FLOOR_AREA_Agg =
                                  fillna(@, CertNumericFill(b, "Cert_TOTAL_FLOOR_AREA_Agg"))],
         LogPrice_PC_Lag |-> f.LogPrice_PC_Lag,
         RatioPcS_PC_Lag |-> f.RatioPcS_PC_Lag,
         RatioSecD_SEC_Lag |-> f.RatioSecD_SEC_Lag,
         CountPc_PC_Lag |-> f.CountPc_PC_Lag,
         CountSec_SEC_Lag |-> f.CountSec_SEC_Lag,
         CountDist_DIST_Lag |-> f.CountDist_DIST_Lag,
         TxCount_PC_Roll |-> RollingCount(b, i, "Postcode", "TransactionCount_Postcode"),
         TxCount_SEC_Roll |-> RollingCount(b, i, "PostcodeSector", "TransactionCount_Sector"),
         TxCount_DIST_Roll |-> RollingCount(b, i, "PostcodeDistrict", "TransactionCount_District"),
         PropType_PC_Perc |-> RollingPerc(b, i, "Postcode", "TransactionCount_Postcode", "PropType_PC_Sum"),
         PropType_SEC_Perc |-> RollingPerc(b, i, "PostcodeSector", "TransactionCount_Sector", "PropType_SEC_Sum"),
         PropType_DIST_Perc |-> RollingPerc(b, i, "PostcodeDistrict", "TransactionCount_District", "PropType_DIST_Sum")]

\* KeptByCleanup without the district anchor among the essential features
KeptByCleanup_target_and_lag(e) ==
    /\ notna(e.base.LogMedianPrice_Postcode)
    /\ notna(e.CountDist_DIST_Lag[MaxLag])

\* lines 579-583: rows without the target or without an essential feature
\* (the filled 18-month district count lag, the district anchor) are dropped
KeptByCleanup(e) ==
    /\ notna(e.base.LogMedianPrice_Postcode)
    /\ notna(e.CountDist_DIST_Lag[MaxLag])
    /\ notna(e.base.MedianPrice_District_Anchor_Lag1m)

engineer_features(df, gmd) ==
    IF df = EmptyFrame THEN EmptyFrame
    ELSE IF isna(gmd) THEN EmptyFrame
    ELSE LET b == WithBase(sort_values(df), gmd)
             e == [i \in 1..Len(b) |-> Engineered(b, i)]
         IN  SelectSeq(e, KeptByCleanup)

(***************************************************************************)
(* train_model: the feature list.  A feature is named by the engineered    *)
(* column it is: <<column>>, <<lag or rolling column, months>> or          *)
(* <<share column, property type, months>>.                                *)
(***************************************************************************)
RECURSIVE Concat(_)
Concat(ss) == IF ss = << >> THEN << >> ELSE Head(ss) \o Concat(Tail(ss))

\* sorted() orders the names as strings: '12m' < '18m' < '1m' < '3m' < '6m'
LagOrder == <<12, 18, 1, 3, 6>>
WindowOrder == <<12, 3, 6>>
TypeRank(t) ==
    CASE t = "Detached" -> 1 [] t = "Flat" -> 2 [] t = "Other" -> 3
      [] t = "Semi-Detached" -> 4 [] t = "Terraced" -> 5

LagColumns == {"LogPrice_PC_Lag", "RatioPcS_PC_Lag", "RatioSecD_SEC_Lag",
               "CountPc_PC_Lag", "CountSec_SEC_Lag", "CountDist_DIST_Lag"}
RollColumns == {"TxCount_PC_Roll", "TxCount_SEC_Roll", "TxCount_DIST_Roll"}
PercColumns == {"PropType_PC_Perc", "PropType_SEC_Perc", "PropType_DIST_Perc"}
CertCategorical == {"Cert_TENURE_Agg"}
CertNumeric == {"Cert_TOTAL_FLOOR_AREA_Agg"}
CountColumns == {"TransactionCount_Postcode", "TransactionCount_Sector",
                 "TransactionCount_District"}

LagFeatures(col) == [k \in 1..Len(LagOrder) |-> <<col, LagOrder[k]>>]
RollFeatures(col) == [k \in 1..Len(WindowOrder) |-> <<col, WindowOrder[k]>>]
TypesOf(df) == DOMAIN df[1].base.PropType_PC_Sum
PercFeatures(df) ==
    LET ts == SortSeq(AscSeq({TypeRank(t) : t \in TypesOf(df)}), LAMBDA a, b : a < b)
        ty(r) == CHOOSE t \in TypesOf(df) : TypeRank(t) = r
    IN  Concat([k \in 1..Len(ts) |->
            Concat(<<[w \in 1..Len(WindowOrder) |-> <<"PropType_DIST_Perc", ty(ts[k]), WindowOrder[w]>>],
                     [w \in 1..Len(WindowOrder) |-> <<"PropType_PC_Perc", ty(ts[k]), WindowOrder[w]>>],
                     [w \in 1..Len(WindowOrder) |-> <<"PropType_SEC_Perc", ty(ts[k]), WindowOrder[w]>>]>>)])

\* lines 618-661: every column that is not an identifier, a price, the
\* target, a current ratio, an anchor or a property-type sum, in sorted order
train_features(df) ==
    Concat(<< <<<<"Cert_TENURE_Agg">>, <<"Cert_TOTAL_FLOOR_AREA_Agg">>>>,
              LagFeatures("CountDist_DIST_Lag"), LagFeatures("CountPc_PC_Lag"),
              LagFeatures("CountSec_SEC_Lag"), LagFeatures("LogPrice_PC_Lag"),
              <<<<"Month">>, <<"MonthsSinceStart">>>>,
              PercFeatures(df),
              LagFeatures("RatioPcS_PC_Lag"), LagFeatures("RatioSecD_SEC_Lag"),
              <<<<"TransactionCount_District">>, <<"TransactionCount_Postcode">>,
                <<"TransactionCount_Sector">>>>,
              RollFeatures("TxCount_DIST_Roll"), RollFeatures("TxCount_PC_Roll"),
              RollFeatures("TxCount_SEC_Roll"),
              <<<<"Year">>>> >>)

\* the value an engineered row holds in a feature column
FeatureValue(e, f) ==
    CASE Len(f) = 1 -> e.base[f[1]]
      [] Len(f) = 2 -> e[f[1]][f[2]]
      [] Len(f) = 3 -> e[f[1]][f[2]][f[3]]

\* what a call returns: None, an exception, or nothing yet
NoneResult == [kind |-> "None"]
Raised == [kind |-> "Exception"]
NoCall == [kind |-> "idle"]

(***************************************************************************)
(* train_model: the selection of the features (lines 607-679).  The frame  *)
(* it is given is described by its columns and their dtypes; its rows      *)
(* matter only through the tests of lines 611-613.                         *)
(***************************************************************************)
SumColumns == {"PropType_DIST_Sum", "PropType_PC_Sum", "PropType_SEC_Sum"}
TargetColumn == <<"LogMedianPrice_Postcode">>

\* the columns of one property type, as sorted() orders their names
\* (..._DIST_DIST_Perc_12m < ..._DIST_Sum < ..._PC_PC_Perc_12m < ...)
ColumnsOfType(t) ==
    Concat(<<[w \in 1..Len(WindowOrder) |-> <<"PropType_DIST_Perc", t, WindowOrder[w]>>],
             <<<<"PropType_DIST_Sum", t>>>>,
             [w \in 1..Len(WindowOrder) |-> <<"PropType_PC_Perc", t, WindowOrder[w]>>],
             <<<<"PropType_PC_Sum", t>>>>,
             [w \in 1..Len(WindowOrder) |-> <<"PropType_SEC_Perc", t, WindowOrder[w]>>],
             <<<<"PropType_SEC_Sum", t>>>>>>)

\* every column an engineered frame can hold, in the order of sorted()
SortedColumns ==
    Concat(<< <<<<"Cert_TENURE_Agg">>, <<"Cert_TOTAL_FLOOR_AREA_Agg">>>>,
              LagFeatures("CountDist_DIST_Lag"), LagFeatures("CountPc_PC_Lag"),
              LagFeatures("CountSec_SEC_Lag"),
              <<TargetColumn>>,
              LagFeatures("LogPrice_PC_Lag"),
              <<<<"MedianPrice_District">>, <<"MedianPrice_District_Anchor_Lag1m">>,
                <<"MedianPrice_Postcode">>, <<"MedianPrice_Sector">>,
                <<"MedianPrice_Sector_Anchor_Lag1m">>,
                <<"Month">>, <<"MonthsSinceStart">>,
                <<"Postcode">>, <<"PostcodeDistrict">>, <<"PostcodeSector">>,
                <<"PriceRatio_PC_SEC">>, <<"PriceRatio_SEC_DIST">>>>,
              ColumnsOfType("Detached"), ColumnsOfType("Flat"), ColumnsOfType("Other"),
              ColumnsOfType("Semi-Detached"), ColumnsOfType("Terraced"),
              LagFeatures("RatioPcS_PC_Lag"), LagFeatures("RatioSecD_SEC_Lag"),
              <<<<"TransactionCount_District">>, <<"TransactionCount_Postcode">>,
                <<"TransactionCount_Sector">>>>,
              RollFeatures("TxCount_DIST_Roll"), RollFeatures("TxCount_PC_Roll"),
              RollFeatures("TxCount_SEC_Roll"),
              <<<<"Year">>, <<"YearMonth">>>> >>)

\* lines 620-623
exclude_identifiers ==
    {<<"Postcode">>, <<"PostcodeDistrict">>, <<"PostcodeSector">>, <<"YearMonth">>,
     <<"Postcode_Clean">>, <<"PropTypeMapped">>}
exclude_targets_raw ==
    {<<"MedianPrice_Postcode">>, <<"MedianPrice_Sector">>, <<"MedianPrice_District">>,
     TargetColumn}
\* the exclusion list without the intermediate columns
exclude_intermediates_none == {}
exclude_intermediates ==
    {<<"PriceRatio_PC_SEC">>, <<"PriceRatio_SEC_DIST">>,
     <<"MedianPrice_Sector_Anchor_Lag1m">>, <<"MedianPrice_District_Anchor_Lag1m">>}
\* line 624: the columns whose name ends in _PC_Sum, _SEC_Sum or _DIST_Sum
exclude_prop_type_sums(all_cols) ==
    {c \in all_cols : Len(c) = 2 /\ c[1] \in SumColumns}
\* lines 626-630: the dummy columns PropType_<type>, when a share column exists
exclude_prop_type_base(all_cols) ==
    IF \E c \in all_cols : Len(c) = 3 /\ c[1] \in PercColumns
    THEN {<<"PropType", ty>> : ty \in {"Detached", "Semi-Detached", "Terraced", "Flat", "Other"}}
    ELSE {}
\* line 634
exclude_cols(all_cols) ==
    exclude_identifiers \cup exclude_targets_raw \cup exclude_intermediates
        \cup exclude_prop_type_sums(all_cols) \cup exclude_prop_type_base(all_cols)

\* lines 636-660: the columns left, of a numeric dtype or of a categorical
\* dtype with plain categories, sorted by name
final_features(df) ==
    {c \in df.columns \ exclude_cols(df.columns) :
        df.dtype[c] \in {"numeric", "category"}}
TrainedOf(features) == [kind |-> "trained", features |-> features]

\* lines 611-614, 661-662, 677-679 and 717-725: what train_model returns
train_model(df) ==
    IF df.rows = 0 THEN Raised
    ELSE IF TargetColumn \notin df.columns THEN Raised
    ELSE IF df.target_nan THEN Raised
    ELSE IF df.prop_type_map = "None" THEN Raised
    ELSE LET features == SelectSeq(SortedColumns, LAMBDA c : c \in final_features(df))
         IN  IF features = << >> THEN Raised
             ELSE IF \E k \in 1..Len(features) : df.dtype[features[k]] = "object"
                  THEN Raised
             ELSE IF df.fit = "raises" THEN Raised
             ELSE TrainedOf(features)

(***************************************************************************)
(* predict_future_prices                                                   *)
(***************************************************************************)
MonthsPerYear == 12

NoneList == << <<"None">> >>          \* features_list is None
DataFrameOf(rows) == [kind |-> "DataFrame", rows |-> rows]

FeatureSet(features_list) == {features_list[i] : i \in 1..Len(features_list)}

\* np.expm1 of a log price in thousandths (the inverse of log1p above;
\* below 0 the result is a negative price)
expm1(x) ==
    CASE isna(x) -> NaN
      [] x < 0 -> -1
      [] x = 0 -> 0
      [] x = 7601 -> 2000
      [] x = 7824 -> 2500
      [] x = 8007 -> 3000
      [] x = 8161 -> 3500
      [] x = 8294 -> 4000
      [] OTHER -> (x - 7000) * 1000

\* Python's max(0, v): v when v > 0 compares true, else 0 (also for nan)
max0(v) == IF notna(v) /\ v > 0 THEN v ELSE 0

\* PredictedPrice without the floor at 0
PredictedPrice_unfloored(predicted_log_price) == expm1(predicted_log_price)

\* line 1004: predicted_price = max(0, float(np.expm1(predicted_log_price)))
PredictedPrice(predicted_log_price) == max0(expm1(predicted_log_price))

\* InputTests without the test of GLOBAL_MIN_DATE
InputTests_no_min_date(a, panel, gmd) ==
    << a.postcode_raw # NoneStr /\ Strip(a.postcode_raw) # << >>,
       notna(a.years_ahead) /\ a.years_ahead > 0,
       a.model # "None",
       a.features_list # NoneList /\ a.features_list # << >>,
       panel # NoneFrame /\ panel # EmptyFrame,
       TRUE,
       a.prop_type_map # "None" >>

\* lines 748-758, in the order the code tests them; Checked(a, panel, gmd, n)
\* holds when the first n tests pass
InputTests(a, panel, gmd) ==
    << a.postcode_raw # NoneStr /\ Strip(a.postcode_raw) # << >>,
       notna(a.years_ahead) /\ a.years_ahead > 0,
       a.model # "None",
       a.features_list # NoneList /\ a.features_list # << >>,
       panel # NoneFrame /\ panel # EmptyFrame,
       notna(gmd),
       a.prop_type_map # "None" >>
Checked(a, panel, gmd, n) == \A k \in 1..n : InputTests(a, panel, gmd)[k]
Validated(a, panel, gmd) == Checked(a, panel, gmd, Len(InputTests(a, panel, gmd)))

\* line 754 runs once the tests on the postcode, the horizon, the model, the
\* feature list and the history have passed
HistoryTests == 5

\* line 754: historical_df_full['YearMonth'] = pd.to_datetime(...) writes
\* into the frame the caller passed
CallerFrameAfterValidation(panel) ==
    [i \in 1..Len(panel) |->
        [panel[i] EXCEPT !.base.YearMonth = to_datetime(@)]]

\* Parsed that tests the district alone
Parsed_district_only(a) ==
    get_postcode_district(Upper(Strip(a.postcode_raw))) \notin {NoneStr, << >>}

\* lines 760-766
PostcodeUpper(a) == Upper(Strip(a.postcode_raw))
PostcodeClean(a) == RemoveBlanks(PostcodeUpper(a))
Parsed(a) ==
    /\ get_postcode_district(PostcodeUpper(a)) \notin {NoneStr, << >>}
    /\ get_postcode_sector(PostcodeUpper(a)) \notin {NoneStr, << >>}

\* the columns of the per-request history that are not features
HistoryBase(e) ==
    [YearMonth |-> e.base.YearMonth,
     Postcode |-> e.base.Postcode,
     PostcodeSector |-> e.base.PostcodeSector,
     PostcodeDistrict |-> e.base.PostcodeDistrict,
     LogMedianPrice_Postcode |-> e.base.LogMedianPrice_Postcode,
     MedianPrice_Postcode |-> e.base.MedianPrice_Postcode,
     MedianPrice_Sector |-> e.base.MedianPrice_Sector,
     MedianPrice_District |-> e.base.MedianPrice_District,
     PriceRatio_PC_SEC |-> e.base.PriceRatio_PC_SEC,
     PriceRatio_SEC_DIST |-> e.base.PriceRatio_SEC_DIST,
     TransactionCount_Postcode |-> e.base.TransactionCount_Postcode,
     TransactionCount_Sector |-> e.base.TransactionCount_Sector,
     TransactionCount_District |-> e.base.TransactionCount_District,
     PropType_PC_Sum |-> e.base.PropType_PC_Sum,
     PropType_SEC_Sum |-> e.base.PropType_SEC_Sum,
     PropType_DIST_Sum |-> e.base.PropType_DIST_Sum]

\* the features that are not also base columns of the history
OwnColumns(features_list) ==
    {f \in FeatureSet(features_list) : f[1] \notin CountColumns}

\* lines 772-773 and 822: the rows of the postcode, by month, restricted to
\* the base columns, the property-type sums and the features
HistoryOf(panel, postcode_clean, features_list) ==
    LET rows == SelectSeq(panel, LAMBDA e : e.base.Postcode = postcode_clean)
        byMonth == SortSeq(rows, LAMBDA x, y : x.base.YearMonth < y.base.YearMonth)
    IN  [i \in 1..Len(byMonth) |->
            HistoryBase(byMonth[i]) @@
            [X |-> [f \in OwnColumns(features_list) |-> FeatureValue(byMonth[i], f)]]]

MaxMonth(months) == CHOOSE m \in months : \A k \in months : k <= m
HistoryMonths(h) == {h[i].YearMonth : i \in 1..Len(h)}

\* HistoryLevel that does not degrade the label
HistoryLevel_always_postcode(h) == "Postcode"

\* lines 775-784
LastKnownDate(panel, h) ==
    IF h = << >> THEN MaxMonth({panel[i].base.YearMonth : i \in 1..Len(panel)})
    ELSE MaxMonth(HistoryMonths(h))
HistoryLevel(h) == IF h = << >> THEN "None" ELSE "Postcode"

\* lines 827-845: the certificate values of the postcode, 'Unknown' and 0.0
\* for a feature the table has no value for
StaticCertFeatures(certs, postcode_clean, features_list) ==
    LET hit == IF certs = NoneFrame \/ certs = EmptyFrame THEN {}
               ELSE {j \in 1..Len(certs) : certs[j].Postcode = postcode_clean}
        j == CHOOSE x \in hit : \A y \in hit : x <= y
        requested == {f[1] : f \in {g \in FeatureSet(features_list) :
                                       g[1] \in CertCategorical \cup CertNumeric}}
        found == IF hit = {} THEN {} ELSE CertCategorical \cup CertNumeric
    IN  [c \in found \cup requested |->
            IF c \in found /\ ~(c \in CertNumeric /\ isna(certs[j][c]))
                           /\ ~(c \in CertCategorical /\ certs[j][c] = "NaN")
            THEN certs[j][c]
            ELSE IF c \in CertCategorical THEN "Unknown" ELSE 0]

\* future_dates that starts at the last known month itself
future_dates_from_last(last_known, years_ahead) ==
    [k \in 1..(years_ahead * 12) |-> last_known + k - 1]

\* line 848: pd.date_range(start=last_known_date + 1 month,
\*                         periods=years_ahead * 12, freq='MS')
future_dates(last_known, years_ahead) ==
    [k \in 1..(years_ahead * MonthsPerYear) |-> last_known + k]

\* the row of the history at a month (the first one), if any
RowsAt(h, month) == {i \in 1..Len(h) : h[i].YearMonth = month}
RowAt(h, month) == h[CHOOSE i \in RowsAt(h, month) : \A k \in RowsAt(h, month) : i <= k]

\* lines 884-908: the value of the source column at the month `lag` months
\* before, the default when no row has that month or its value is missing
LagSource(col) ==
    CASE col = "LogPrice_PC_Lag" -> "LogMedianPrice_Postcode"
      [] col = "RatioPcS_PC_Lag" -> "PriceRatio_PC_SEC"
      [] col = "RatioSecD_SEC_Lag" -> "PriceRatio_SEC_DIST"
      [] col = "CountPc_PC_Lag" -> "TransactionCount_Postcode"
      [] col = "CountSec_SEC_Lag" -> "TransactionCount_Sector"
      [] col = "CountDist_DIST_Lag" -> "TransactionCount_District"
LagDefault_zero(col) == 0
LagDefault(col) ==
    IF col \in {"RatioPcS_PC_Lag", "RatioSecD_SEC_Lag"} THEN 1000 ELSE 0
LagFeature(h, current_date, col, lag) ==
    IF RowsAt(h, current_date - lag) = {} THEN LagDefault(col)
    ELSE fillna(RowAt(h, current_date - lag)[LagSource(col)], LagDefault(col))

\* lines 911-945: the window is the `window` months that end the month
\* before; the sums skip missing values
RollCount(col) ==
    CASE col \in {"TxCount_PC_Roll", "PropType_PC_Perc"} -> "TransactionCount_Postcode"
      [] col \in {"TxCount_SEC_Roll", "PropType_SEC_Perc"} -> "TransactionCount_Sector"
      [] col \in {"TxCount_DIST_Roll", "PropType_DIST_Perc"} -> "TransactionCount_District"
PercSum(col) ==
    CASE col = "PropType_PC_Perc" -> "PropType_PC_Sum"
      [] col = "PropType_SEC_Perc" -> "PropType_SEC_Sum"
      [] col = "PropType_DIST_Perc" -> "PropType_DIST_Sum"
HistoryWindow(h, current_date, window) ==
    SelectSeq(h, LAMBDA r : /\ r.YearMonth >= current_date - window
                            /\ r.YearMonth <= current_date - 1)
WindowCount(h, current_date, col, window) ==
    LET hw == HistoryWindow(h, current_date, window)
    IN  SumSeq([i \in 1..Len(hw) |-> fillna(hw[i][RollCount(col)], 0)])
WindowTypeSum(h, current_date, col, t, window) ==
    LET hw == HistoryWindow(h, current_date, window)
    IN  SumSeq([i \in 1..Len(hw) |->
                   IF t \in DOMAIN hw[i][PercSum(col)]
                   THEN fillna(hw[i][PercSum(col)][t], 0) ELSE 0])
WindowPerc(h, current_date, col, t, window) ==
    IF WindowCount(h, current_date, col, window) > 0
    THEN (WindowTypeSum(h, current_date, col, t, window) * 1000)
             \div WindowCount(h, current_date, col, window)
    ELSE 0

\* the property types the history has sum columns for
HistoryTypes(panel) == TypesOf(panel)

\* lines 856-945: the features the step derives (the columns of
\* predict_df_single that are features)
DerivedFeatures(features_list, panel, static) ==
    {f \in FeatureSet(features_list) :
        \/ f[1] \in {"Year", "Month", "MonthsSinceStart"}
        \/ f[1] \in DOMAIN static
        \/ f[1] \in {"MedianPrice_Sector_Anchor_Lag1m", "MedianPrice_District_Anchor_Lag1m"}
        \/ (f[1] \in LagColumns /\ f[2] \in Lags)
        \/ (f[1] \in RollColumns /\ f[2] \in Windows)
        \/ (f[1] \in PercColumns /\ f[2] \in HistoryTypes(panel) /\ f[3] \in Windows)}

Derive(f, h, current_date, gmd, static) ==
    CASE f[1] = "Year" -> YearOf(current_date)
      [] f[1] = "Month" -> MonthOf(current_date)
      [] f[1] = "MonthsSinceStart" ->
            (YearOf(current_date) - YearOf(gmd)) * 12 + MonthOf(current_date) - MonthOf(gmd)
      [] f[1] \in CertCategorical \cup CertNumeric -> static[f[1]]
      [] f[1] = "MedianPrice_District_Anchor_Lag1m" ->
            IF RowsAt(h, current_date - 1) = {} THEN 0
            ELSE fillna(RowAt(h, current_date - 1).MedianPrice_District, 0)
      [] f[1] = "MedianPrice_Sector_Anchor_Lag1m" ->
            IF RowsAt(h, current_date - 1) = {} THEN 0
            ELSE fillna(fillna(RowAt(h, current_date - 1).MedianPrice_Sector,
                               RowAt(h, current_date - 1).MedianPrice_District), 0)
      [] f[1] \in LagColumns -> LagFeature(h, current_date, f[1], f[2])
      [] f[1] \in RollColumns -> WindowCount(h, current_date, f[1], f[2])
      [] f[1] \in PercColumns -> WindowPerc(h, current_date, f[1], f[2], f[3])

\* lines 949-991: a feature the step did not derive, or derived as a
\* missing value, takes a default; a categorical value the panel's column
\* does not hold becomes 'Unknown'
AlignDefault(f) ==
    IF f[1] \in CertCategorical THEN "Unknown"
    ELSE IF f[1] \in {"RatioPcS_PC_Lag", "RatioSecD_SEC_Lag"} THEN 1000
    ELSE 0
TrainCategories(panel, col) == {panel[i].base[col] : i \in 1..Len(panel)} \cup {"Unknown"}
Aligned(f, v, panel) ==
    IF f[1] \in CertCategorical
    THEN (IF v \in TrainCategories(panel, f[1]) THEN v ELSE "Unknown")
    ELSE fillna(v, AlignDefault(f))
PredictX(features_list, panel, h, current_date, gmd, static) ==
    LET derived == DerivedFeatures(features_list, panel, static)
    IN  [f \in FeatureSet(features_list) |->
            IF f \in derived
            THEN Aligned(f, Derive(f, h, current_date, gmd, static), panel)
            ELSE AlignDefault(f)]

\* lines 950-969 and 994: the loop adds one column per name of the list, in
\* the order of the list (a name met again adds none); predict_X[features_list]
\* then selects the columns by the list
InsertedColumns(features_list) ==
    SelectSeq([k \in 1..Len(features_list) |-> <<k, features_list[k]>>],
              LAMBDA p : \A j \in 1..(p[1] - 1) : features_list[j] # p[2])
PredictXColumns(features_list) ==
    LET cols == InsertedColumns(features_list)
        inserted == {cols[k][2] : k \in 1..Len(cols)}
    IN  IF \A k \in 1..Len(features_list) : features_list[k] \in inserted
        THEN features_list
        ELSE << >>      \* KeyError, line 995

\* line 1003: model.predict(predict_X)[0].  The fitted model is given; the
\* model draws it from a family of regressors, named by what they return
\* (log price in thousandths).
NextLog(x) == CASE x = 7601 -> 8007 [] x = 8007 -> 8294 [] OTHER -> 7601
ModelPredict(model, X) ==
    CASE model = "nan" -> NaN
      [] model = "seasonal" -> IF X[<<"Month">>] % 2 = 0 THEN 8294 ELSE -1000
      [] model = "lagged" -> IF X[<<"LogPrice_PC_Lag", 1>>] > 0
                             THEN NextLog(X[<<"LogPrice_PC_Lag", 1>>]) ELSE 8007

\* line 1012
PredictionRow(current_date, predicted_price, level) ==
    [YearMonth |-> current_date, Predicted_Median_Price |-> predicted_price,
     Based_On_History |-> level]

\* lines 1015-1052: the synthetic row of the month
NewHistoryRow(a, h, panel, current_date, predicted_log_price, predicted_price, X) ==
    LET prev == RowsAt(h, current_date - 1)
        last_row_values == RowAt(h, current_date - 1)
        mp_sector == IF prev # {} THEN fillna(last_row_values.MedianPrice_Sector, predicted_price)
                     ELSE predicted_price
        mp_district == IF prev # {} THEN fillna(last_row_values.MedianPrice_District, predicted_price)
                       ELSE predicted_price
        sums(col) == IF prev # {}
                     THEN [t \in HistoryTypes(panel) |-> fillna(last_row_values[col][t], 0)]
                     ELSE [t \in HistoryTypes(panel) |-> IF t = "Other" THEN 1 ELSE 0]
    IN  [YearMonth |-> current_date,
         Postcode |-> PostcodeClean(a),
         PostcodeSector |-> get_postcode_sector(PostcodeUpper(a)),
         PostcodeDistrict |-> get_postcode_district(PostcodeUpper(a)),
         LogMedianPrice_Postcode |-> predicted_log_price,
         MedianPrice_Postcode |-> predicted_price,
         MedianPrice_Sector |-> mp_sector,
         MedianPrice_District |-> mp_district,
         PriceRatio_PC_SEC |->
             IF notna(mp_sector) /\ mp_sector > 0
             THEN (predicted_price * 1000) \div mp_sector ELSE 1000,
         PriceRatio_SEC_DIST |->
             IF notna(mp_sector) /\ notna(mp_district) /\ mp_district > 0
             THEN (mp_sector * 1000) \div mp_district ELSE 1000,
         TransactionCount_Postcode |-> 1,
         TransactionCount_Sector |->
             IF prev # {} THEN fillna(last_row_values.TransactionCount_Sector, 0) ELSE 1,
         TransactionCount_District |->
             IF prev # {} THEN fillna(last_row_values.TransactionCount_District, 0) ELSE 1,
         PropType_PC_Sum |-> sums("PropType_PC_Sum"),
         PropType_SEC_Sum |-> sums("PropType_SEC_Sum"),
         PropType_DIST_Sum |-> sums("PropType_DIST_Sum"),
         X |-> [f \in OwnColumns(a.features_list) |-> X[f]]]

\* lines 1090-1092: the row is appended; of two rows of one month the
\* later one stays
ConcatKeepLast_not_appended(h, row) == h
ConcatKeepLast_recounted(h, row) ==
    SelectSeq(h, LAMBDA r : r.YearMonth # row.YearMonth)
        \o <<[row EXCEPT !.TransactionCount_Sector = @ + 1]>>
ConcatKeepLast(h, row) ==
    SelectSeq(h, LAMBDA r : r.YearMonth # row.YearMonth) \o <<row>>

\* CallerPanelAfterStep when the history is the frame of the caller itself
CallerPanelAfterStep_shared(panel, row) == Append(panel, row)

\* lines 772 and 1090: the per-request history is a copy, and the append
\* rebinds it; the frame of the caller is not written
CallerPanelAfterStep(panel, row) == panel

\* Handled when the model prediction is not inside a try block
Handled_concat_only(site) == site \in {"concat"}

\* the places of one per-month step where an exception can arise, and the
\* ones inside a try block whose handler returns the rows computed so far
\* (lines 1001-1010 and 1089-1098)
FaultSites == {"derive", "align", "predict", "newrow", "concat"}
Handled(site) == site \in {"predict", "concat"}

(***************************************************************************)
(* Sample data of the process model                                        *)
(***************************************************************************)
PcA1_1AA == <<"A", "1", " ", "1", "A", "A">>
PcA1_1AB == <<"A", "1", " ", "1", "A", "B">>
PcA11AA  == <<"A", "1", "1", "A", "A">>     \* the first one, written without the blank
PcB1_1AA == <<"B", "1", " ", "1", "A", "A">>
PcB1_2AA == <<"B", "1", " ", "2", "A", "A">>
PcLower  == <<"a", "1", " ", "1", "a", "a", " ">>   \* 'a1 1aa ' as a user types it
PcBlank  == <<" ", " ">>
PcNoSector == <<"A">>                        \* yields a district and no sector

FirstMonth == 2020 * 12        \* 2020-01

RawRecord(price, date, postcode, ptype) ==
    [Price |-> price, Date |-> date, Postcode |-> postcode, PropType |-> ptype]

\* a corpus of three postcodes in two districts: A1 1AA has three months
\* with a gap, A1 1AB a single month, B1 1AA two months
SampleCorpus ==
    << RawRecord(2000, FirstMonth, PcA1_1AA, "D"),
       RawRecord(4000, FirstMonth + 1, PcA1_1AA, "X"),
       RawRecord(2000, FirstMonth + 3, PcA1_1AA, "D"),
       RawRecord(2000, FirstMonth + 1, PcA1_1AB, "D"),
       RawRecord(4000, FirstMonth, PcB1_1AA, "X"),
       RawRecord(2000, FirstMonth + 2, PcB1_1AA, "D") >>
\* a corpus of one transaction
SingleCorpus == << RawRecord(2000, FirstMonth, PcA1_1AA, "D") >>
\* a corpus whose last month holds two transactions of one postcode and type
BusyCorpus ==
    << RawRecord(2000, FirstMonth, PcA1_1AA, "D"),
       RawRecord(2000, FirstMonth + 1, PcA1_1AA, "D"),
       RawRecord(4000, FirstMonth + 1, PcA1_1AA, "D") >>
SampleBatches == {SampleCorpus, SingleCorpus, BusyCorpus}

\* an aggregated certificate table: one postcode of the corpus, one that
\* the corpus does not hold
SampleCerts ==
    << CertRow(RemoveBlanks(PcA1_1AA), 80, "OWNER"),
       CertRow(RemoveBlanks(PcB1_2AA), 120, "RENTAL") >>

\* panels a caller holds from an earlier run of the program on SampleCorpus
CachedAgg == preprocess_price_data(SampleCorpus)
CachedPanel ==
    engineer_features(combine_data(CachedAgg, SampleCerts),
                      NewGlobalMinDate(NaN, SampleCorpus))
\* the feature list saved with the model of that run
SavedFeatures == train_features(CachedPanel)

(***************************************************************************)
(* The requests of the process model                                       *)
(***************************************************************************)
MaxYears == 2

PostcodeInputs == {NoneStr, PcBlank, PcLower, PcA1_1AB, PcB1_2AA, PcNoSector}
YearsInputs == {NaN} \cup 0..MaxYears          \* NaN: not an integer
Models == {"nan", "seasonal", "lagged"}

IsFrame(panel) == panel # NoneFrame /\ panel # EmptyFrame

\* the history a request passes: None, the panel of this process, or the
\* panel the caller kept from the earlier run
Histories == {"None", "historical_data", "CachedPanel"}
PassedPanel(history, panel) ==
    CASE history = "None" -> NoneFrame
      [] history = "historical_data" -> panel
      [] history = "CachedPanel" -> CachedPanel

\* the feature list is the one trained on the panel passed, or the saved one
Requests(panel) ==
    UNION {[postcode_raw : PostcodeInputs,
            years_ahead : YearsInputs,
            model : Models \cup {"None"},
            features_list : {NoneList, << >>,
                             IF IsFrame(PassedPanel(hh, panel))
                             THEN train_features(PassedPanel(hh, panel))
                             ELSE SavedFeatures},
            history : {hh},
            prop_type_map : {"None", "prop_type_map"}] : hh \in Histories}

(***************************************************************************)
(* Idle values of each group of variables                                  *)
(***************************************************************************)
PcIdle ==
    /\ pcIn = NoneStr
    /\ pcDistrict = NoneStr
    /\ pcSector = NoneStr
    /\ pcPhase = "in"

IngIdle ==
    /\ GLOBAL_MIN_DATE = NaN
    /\ ingested = {}
    /\ ingCount = 0
    /\ raw_df = EmptyFrame
    /\ agg_df = EmptyFrame
    /\ fe_in = EmptyFrame
    /\ fe_df = EmptyFrame
    /\ ingPhase = "start"
    /\ runs = {}

CallIdle ==
    /\ args = NoCall
    /\ historical_df_full = NoneFrame
    /\ before = << >>
    /\ pstate = "idle"
    /\ step = 0
    /\ fault = "none"
    /\ last_known_date = NaN
    /\ history_level = "None"
    /\ static_cert_features = << >>
    /\ current_history = << >>
    /\ predictions = << >>
    /\ predict_X = << >>
    /\ result = NoCall

TrainIdle ==
    /\ train_in = NoCall
    /\ train_out = NoCall

\* predict_price.py: None for error_output and for predicted_price_current_year
NoError == [none |-> TRUE]
NoPrice == -1
LiteIdle ==
    /\ lite_in = NoCall
    /\ lite_pos = "idle"
    /\ num_years_to_predict = 0
    /\ borough = "None"
    /\ user_input_df = << >>
    /\ year_offset = 0
    /\ user_input_engineered_df = << >>
    /\ predicted_price_current_year = NoPrice
    /\ results_list = << >>
    /\ error_output = NoError
    /\ stdout = << >>
    /\ escaped = "None"

ExtIdle == TrainIdle /\ LiteIdle

(***************************************************************************)
(* Actions                                                                 *)
(***************************************************************************)
RecordsOf(df) == {df[i] : i \in 1..Len(df)}

\* the inputs the pipeline has been run on
RunInputs == {r[1] : r \in runs}

\* one call preprocess_price_data(df, prop_type_map); records handed in
\* again by a re-run of the pipeline on an earlier input are not new records
PreprocessPriceData(df) ==
    /\ GLOBAL_MIN_DATE' = NewGlobalMinDate(GLOBAL_MIN_DATE, df)
    /\ agg_df' = preprocess_price_data(df)
    /\ raw_df' = df
    /\ ingested' = ingested \cup RecordsOf(df)
    /\ ingCount' = IF df \in RunInputs THEN ingCount ELSE ingCount + Len(df)
    /\ ingPhase' = "preprocessed"
    /\ UNCHANGED <<fe_in, fe_df, runs>>

\* one call engineer_features(combine_data(agg, certs_agg_df), prop_type_map)
\* (main, lines 1147-1149); combine_data rewrites the Postcode column of the
\* certificate table in place
EngineerFeatures(agg) ==
    /\ fe_in' = combine_data(agg, certs_agg_df)
    /\ fe_df' = engineer_features(fe_in', GLOBAL_MIN_DATE)
    /\ certs_agg_df' = IF agg = EmptyFrame THEN certs_agg_df
                       ELSE CertsAfterAstype(certs_agg_df)
    /\ ingPhase' = "engineered"
    /\ UNCHANGED <<GLOBAL_MIN_DATE, ingested, ingCount, raw_df, agg_df>>

\* predict_future_prices up to the start of its loop (lines 747-851)
PredictStart ==
    /\ pstate = "idle"
    /\ \E a \in Requests(historical_data) :
          LET panel == PassedPanel(a.history, historical_data)
              ok == Validated(a, panel, GLOBAL_MIN_DATE) /\ Parsed(a)
              h == HistoryOf(panel, PostcodeClean(a), a.features_list)
          IN  /\ args' = a
              /\ before' = <<panel, certs_agg_df>>
              /\ historical_df_full' =
                    IF Checked(a, panel, GLOBAL_MIN_DATE, HistoryTests)
                    THEN CallerFrameAfterValidation(panel) ELSE panel
              /\ IF ok /\ notna(LastKnownDate(panel, h))
                 THEN /\ pstate' = "loop"
                      /\ result' = NoCall
                      /\ current_history' = h
                      /\ last_known_date' = LastKnownDate(panel, h)
                      /\ history_level' = HistoryLevel(h)
                      /\ static_cert_features' =
                            StaticCertFeatures(certs_agg_df, PostcodeClean(a), a.features_list)
                      /\ certs_agg_df' = CertsAfterAstype(certs_agg_df)
                 ELSE /\ pstate' = "done"
                      /\ result' = NoneResult
                      /\ UNCHANGED <<current_history, last_known_date, history_level,
                                     static_cert_features, certs_agg_df>>
              \* passing the panel of the process passes that very frame
              /\ historical_data' = IF a.history = "historical_data"
                                    THEN historical_df_full' ELSE historical_data
    /\ UNCHANGED <<step, fault, predictions, predict_X>>
    /\ UNCHANGED <<pcVars, ingVars, extVars>>

\* one iteration of the loop (lines 853-1098); `site` is where an exception
\* arises in it, if any.  Without GLOBAL_MIN_DATE the month arithmetic of
\* line 861 raises.
PredictStep ==
    /\ pstate = "loop"
    /\ step < Len(future_dates(last_known_date, args.years_ahead))
    /\ LET current_date == future_dates(last_known_date, args.years_ahead)[step + 1]
           X == PredictX(args.features_list, historical_df_full, current_history,
                         current_date, GLOBAL_MIN_DATE, static_cert_features)
           predicted_log_price == ModelPredict(args.model, X)
           predicted_price == PredictedPrice(predicted_log_price)
           appended == Append(predictions,
                              PredictionRow(current_date, predicted_price, history_level))
           row == NewHistoryRow(args, current_history, historical_df_full, current_date,
                                predicted_log_price, predicted_price, X)
       IN  \E chosen \in FaultSites \cup {"none"} :
              LET site == IF isna(GLOBAL_MIN_DATE) THEN "derive" ELSE chosen
              IN  /\ fault' = site
                  /\ predict_X' = IF site \in {"derive", "align"} THEN predict_X ELSE X
                  /\ predictions' = IF site \in {"derive", "align", "predict"}
                                    THEN predictions ELSE appended
                  /\ IF site = "none"
                     THEN /\ current_history' = ConcatKeepLast(current_history, row)
                          /\ historical_df_full' =
                                CallerPanelAfterStep(historical_df_full, row)
                          /\ historical_data' = IF args.history = "historical_data"
                                                THEN historical_df_full'
                                                ELSE historical_data
                          /\ step' = step + 1
                          /\ UNCHANGED <<pstate, result>>
                     ELSE /\ pstate' = "done"
                          /\ result' = IF Handled(site) THEN DataFrameOf(predictions')
                                        ELSE Raised
                          /\ UNCHANGED <<current_history, historical_df_full,
                                         historical_data, step>>
    /\ UNCHANGED <<args, before, last_known_date, history_level, static_cert_features,
                   certs_agg_df>>
    /\ UNCHANGED <<pcVars, ingVars, extVars>>

\* line 1105: return pd.DataFrame(predictions)
PredictReturn ==
    /\ pstate = "loop"
    /\ step = Len(future_dates(last_known_date, args.years_ahead))
    /\ pstate' = "done"
    /\ result' = DataFrameOf(predictions)
    /\ UNCHANGED <<args, historical_df_full, before, historical_data, certs_agg_df,
                   step, fault, last_known_date, history_level, static_cert_features,
                   current_history, predictions, predict_X>>
    /\ UNCHANGED <<pcVars, ingVars, extVars>>

\* the caller has taken the result; the locals of the call are gone
PredictDone ==
    /\ pstate = "done"
    /\ args' = NoCall
    /\ historical_df_full' = NoneFrame
    /\ before' = << >>
    /\ pstate' = "idle"
    /\ step' = 0
    /\ fault' = "none"
    /\ last_known_date' = NaN
    /\ history_level' = "None"
    /\ static_cert_features' = << >>
    /\ current_history' = << >>
    /\ predictions' = << >>
    /\ predict_X' = << >>
    /\ result' = NoCall
    /\ UNCHANGED <<historical_data, certs_agg_df>>
    /\ UNCHANGED <<pcVars, ingVars, extVars>>

(***************************************************************************)
(* Spec: one process.  It prepares its data once (main, lines 1142-1149)   *)
(* from one corpus, or engineers an aggregated panel kept from an earlier  *)
(* run, and serves any number of projection requests, one at a time.       *)
(***************************************************************************)
PrepareBatch ==
    /\ pstate = "idle"
    /\ ingPhase = "start"
    /\ \E df \in SampleBatches : PreprocessPriceData(df)
    /\ UNCHANGED <<pcVars, callVars, extVars, historical_data, certs_agg_df>>

PrepareEngineer ==
    /\ pstate = "idle"
    /\ ingPhase \in {"start", "preprocessed"}
    /\ \E agg \in {agg_df, CachedAgg} : EngineerFeatures(agg)
    /\ historical_data' = fe_df'
    /\ UNCHANGED runs
    /\ UNCHANGED <<pcVars, callVars, extVars>>

Init ==
    /\ PcIdle /\ IngIdle /\ CallIdle /\ ExtIdle
    /\ historical_data = NoneFrame
    /\ certs_agg_df \in {NoneFrame, SampleCerts}

Next ==
    \/ PrepareBatch
    \/ PrepareEngineer
    \/ PredictStart
    \/ PredictStep
    \/ PredictReturn
    \/ PredictDone

Spec == Init /\ [][Next]_vars

(***************************************************************************)
(* Ingestion as a state machine: any sequence of preprocess_price_data     *)
(* calls, each followed or not by engineer_features on the panel it        *)
(* returned.                                                               *)
(***************************************************************************)
MaxRecords == 3

IngestMonths == {FirstMonth, FirstMonth + 1}


\* The raw records a bounded batch is drawn from: valid ones, and one of
\* each kind the cleaning discards, dated the first month.
ValidRecords ==
    {RawRecord(pt[1], d, PcA1_1AA, pt[2]) :
        pt \in {<<2000, "D">>, <<4000, "X">>}, d \in IngestMonths}
    \cup {RawRecord(2000, d, pc, "D") : d \in IngestMonths, pc \in {PcA1_1AB, PcA11AA}}
DiscardedRecords ==
    {RawRecord(500, FirstMonth, PcA1_1AA, "D"),
     RawRecord(2000, FirstMonth, PcNoSector, "D"),
     RawRecord(2000, BadDate, PcA1_1AA, "D"),
     RawRecord(NaN, FirstMonth, PcA1_1AA, "D")}

\* a fixed enumeration of the records, so that a batch is a multiset
RECURSIVE EnumSet(_)
EnumSet(S) ==
    IF S = {} THEN << >> ELSE LET x == CHOOSE y \in S : TRUE IN <<x>> \o EnumSet(S \ {x})
RecOptions == EnumSet(ValidRecords \cup DiscardedRecords)

RECURSIVE AscIndexSeqs(_, _)
AscIndexSeqs(n, hi) ==
    IF n = 0 THEN {<< >>}
    ELSE UNION {{Append(s, k) : k \in (IF s = << >> THEN 1 ELSE s[Len(s)])..hi} :
                   s \in AscIndexSeqs(n - 1, hi)}

\* every batch of at most n raw records, one representative per multiset
Batches(n) ==
    {[i \in 1..Len(s) |-> RecOptions[s[i]]] :
        s \in UNION {AscIndexSeqs(k, Len(RecOptions)) : k \in 0..n}}


IngestBatch ==
    \E df \in Batches(MaxRecords - ingCount) :
        /\ PreprocessPriceData(df)
        /\ UNCHANGED <<pcVars, callVars, extVars, historical_data, certs_agg_df>>

IngestEngineer ==
    /\ ingPhase = "preprocessed"
    /\ EngineerFeatures(agg_df)
    /\ historical_data' = fe_df'
    /\ UNCHANGED runs
    /\ UNCHANGED <<pcVars, callVars, extVars>>

InitIngest ==
    /\ PcIdle /\ IngIdle /\ CallIdle /\ ExtIdle
    /\ historical_data = NoneFrame
    /\ certs_agg_df = SampleCerts

NextIngest == IngestBatch \/ IngestEngineer

SpecIngest == InitIngest /\ [][NextIngest]_vars

\* the records of the TransactionRecord invariant: price > 1000, the date
\* parses, the postcode yields a district and a sector
ValidRecord(r) ==
    /\ notna(r.Price) /\ r.Price > 1000
    /\ r.Date # BadDate /\ notna(r.Date)
    /\ r.Postcode # NoneStr
    /\ get_postcode_district(r.Postcode) # NoneStr
    /\ get_postcode_sector(r.Postcode) # NoneStr

\* C7: GLOBAL_MIN_DATE is the earliest date among the valid records
\* ingested so far (unset while there is none); a record the cleaning
\* discards does not determine it.
C7_MinDateOfValidRecords ==
    LET valid == {r \in ingested : ValidRecord(r)}
    IN  IF valid = {} THEN isna(GLOBAL_MIN_DATE)
        ELSE /\ notna(GLOBAL_MIN_DATE)
             /\ \E r \in valid : r.Date = GLOBAL_MIN_DATE
             /\ \A r \in valid : GLOBAL_MIN_DATE <= r.Date

\* ---- C10 ----
\* an aggregated row whose month is the earliest its postcode, its sector
\* and its district have among the cleaned transactions of the batch
NoEarlierMonth(a) ==
    \A i \in 1..Len(Cleaned(raw_df)) :
        LET r == Cleaned(raw_df)[i]
        IN  (\/ r.Postcode_Clean = a.Postcode
             \/ r.PostcodeSector = a.PostcodeSector
             \/ r.PostcodeDistrict = a.PostcodeDistrict) => r.YearMonth >= a.YearMonth

EngineeredRowsOf(a) ==
    {j \in 1..Len(fe_df) : /\ fe_df[j].base.Postcode = a.Postcode
                           /\ fe_df[j].base.YearMonth = a.YearMonth}

AllLagsDefault(e) ==
    \A l \in Lags :
        /\ e.LogPrice_PC_Lag[l] = 0
        /\ e.RatioPcS_PC_Lag[l] = 1000 /\ e.RatioSecD_SEC_Lag[l] = 1000
        /\ e.CountPc_PC_Lag[l] = 0 /\ e.CountSec_SEC_Lag[l] = 0
        /\ e.CountDist_DIST_Lag[l] = 0

\* the number of cleaned transactions behind an aggregated row
CleanedCountOf(a) ==
    Cardinality({i \in 1..Len(Cleaned(raw_df)) :
        LET r == Cleaned(raw_df)[i]
        IN  /\ r.Postcode_Clean = a.Postcode /\ r.PostcodeSector = a.PostcodeSector
            /\ r.PostcodeDistrict = a.PostcodeDistrict /\ r.YearMonth = a.YearMonth})

\* no row of the same district sorts before a in the frame
FirstOfDistrict(a) ==
    \A i \in 1..Len(agg_df) :
        agg_df[i].PostcodeDistrict = a.PostcodeDistrict
            => (agg_df[i] = a \/ FrameKeyLess(a, agg_df[i]))

RerunBatch ==
    \E df \in Batches(MaxRecords - ingCount) \cup RunInputs :
        /\ PreprocessPriceData(df)
        /\ UNCHANGED <<pcVars, callVars, extVars, historical_data, certs_agg_df>>

RerunEngineer ==
    /\ ingPhase = "preprocessed"
    /\ EngineerFeatures(agg_df)
    /\ historical_data' = fe_df'
    /\ runs' = runs \cup {<<raw_df, fe_df'>>}
    /\ UNCHANGED <<pcVars, callVars, extVars>>

NextRerun == RerunBatch \/ RerunEngineer

SpecRerun == InitIngest /\ [][NextRerun]_vars

\* ---- C11 ----
\* C11: two runs of preprocess_price_data followed by engineer_features on
\* identical raw records return identical panels, whatever the process
\* ingested before or between them.
C11_SameInputSamePanel ==
    \A r1, r2 \in runs : r1[1] = r2[1] => r1[2] = r2[2]

\* ---- C12 ----
\* C12: the panel preprocess_price_data returns holds at most one row per
\* (Postcode, YearMonth), Postcode being the postcode without blanks, and
\* every transaction count in it is at least 1.
C12_UniqueKeysPositiveCounts ==
    ingPhase # "start" =>
        /\ \A i, j \in 1..Len(agg_df) :
              (agg_df[i].Postcode = agg_df[j].Postcode
                  /\ agg_df[i].YearMonth = agg_df[j].YearMonth) => i = j
        /\ \A i \in 1..Len(agg_df) :
              /\ agg_df[i].Postcode = RemoveBlanks(agg_df[i].Postcode)
              /\ agg_df[i].TransactionCount_Postcode >= 1
              /\ agg_df[i].TransactionCount_Sector >= 1
              /\ agg_df[i].TransactionCount_District >= 1

\* C12 witness: one batch holds, for the same month, a postcode written
\* with and without its blank (two groups, since their districts differ);
\* the panel has one row for it
C12_Witness ==
    /\ ingPhase = "preprocessed"
    /\ \E m \in IngestMonths :
          /\ RawRecord(2000, m, PcA1_1AA, "D") \in RecordsOf(raw_df)
          /\ RawRecord(2000, m, PcA11AA, "D") \in RecordsOf(raw_df)
          /\ Cardinality({i \in 1..Len(agg_df) :
                 agg_df[i].Postcode = PcA11AA /\ agg_df[i].YearMonth = m}) = 1

(***************************************************************************)
(* SpecTrain: one call of train_model on a frame that holds any choice of  *)
(* the groups of columns of the engineered panel.                          *)
(***************************************************************************)
EngineeredTypes == TypesOf(CachedPanel)
GroupNames == {"identifiers", "prices", "target", "intermediates", "sums",
               "kept", "shares", "certs"}
ColumnGroup(g) ==
    CASE g = "identifiers" ->
            {<<"Postcode">>, <<"PostcodeDistrict">>, <<"PostcodeSector">>, <<"YearMonth">>}
      [] g = "prices" ->
            {<<"MedianPrice_Postcode">>, <<"MedianPrice_Sector">>, <<"MedianPrice_District">>}
      [] g = "target" -> {TargetColumn}
      [] g = "intermediates" ->
            {<<"PriceRatio_PC_SEC">>, <<"PriceRatio_SEC_DIST">>,
             <<"MedianPrice_Sector_Anchor_Lag1m">>, <<"MedianPrice_District_Anchor_Lag1m">>}
      [] g = "sums" -> {<<c, ty>> : c \in SumColumns, ty \in EngineeredTypes}
      [] g = "kept" ->
            {<<"Year">>, <<"Month">>, <<"MonthsSinceStart">>}
                \cup {<<c>> : c \in CountColumns}
                \cup {<<c, l>> : c \in LagColumns, l \in Lags}
                \cup {<<c, w>> : c \in RollColumns, w \in Windows}
      [] g = "shares" ->
            {<<c, ty, w>> : c \in PercColumns, ty \in EngineeredTypes, w \in Windows}
      [] g = "certs" -> {<<c>> : c \in CertCategorical \cup CertNumeric}

\* the dtype of a column of the engineered panel; a certificate category
\* column is a category, or an object when its conversion failed (line 559)
DtypeOf(c, cert_dtype) ==
    IF c \in {<<"Postcode">>, <<"PostcodeDistrict">>, <<"PostcodeSector">>} THEN "object"
    ELSE IF c = <<"YearMonth">> THEN "datetime"
    ELSE IF c[1] \in CertCategorical THEN cert_dtype
    ELSE "numeric"

TrainFrame(S, cert_dtype, rows, target_nan, prop_type_map, fit) ==
    LET cols == UNION {ColumnGroup(g) : g \in S}
    IN  [columns |-> cols,
         dtype |-> [c \in cols |-> DtypeOf(c, cert_dtype)],
         rows |-> rows, target_nan |-> target_nan,
         prop_type_map |-> prop_type_map, fit |-> fit]

TrainInputs ==
    {TrainFrame(S, cd, 1, FALSE, "map", "ok") :
        S \in SUBSET GroupNames, cd \in {"category", "complex_category", "object"}}
    \cup {TrainFrame(S, "category", x[1], x[2], x[3], x[4]) :
            S \in {GroupNames, {"target"}, {"target", "kept"}},
            x \in {0, 1} \X BOOLEAN \X {"None", "map"} \X {"ok", "raises"}}

TrainModel ==
    /\ train_in # NoCall /\ train_out = NoCall
    /\ train_out' = train_model(train_in)
    /\ UNCHANGED <<train_in, liteVars, pcVars, ingVars, callVars, historical_data,
                   certs_agg_df>>

InitTrain ==
    /\ PcIdle /\ IngIdle /\ CallIdle
    /\ historical_data = NoneFrame
    /\ certs_agg_df = NoneFrame
    /\ train_in \in TrainInputs
    /\ train_out = NoCall
    /\ LiteIdle

NextTrain == TrainModel

SpecTrain == InitTrain /\ [][NextTrain]_vars

\* ---- C13 ----
\* the columns the trainer must not use: identifiers, raw prices and the
\* target, intermediate ratios and anchors, property-type sums
NotAFeature(c) ==
    \/ c \in {<<"Postcode">>, <<"PostcodeDistrict">>, <<"PostcodeSector">>, <<"YearMonth">>}
    \/ c \in {<<"MedianPrice_Postcode">>, <<"MedianPrice_Sector">>,
               <<"MedianPrice_District">>, <<"LogMedianPrice_Postcode">>}
    \/ c \in {<<"PriceRatio_PC_SEC">>, <<"PriceRatio_SEC_DIST">>,
               <<"MedianPrice_Sector_Anchor_Lag1m">>, <<"MedianPrice_District_Anchor_Lag1m">>}
    \/ c[1] \in {"PropType_DIST_Sum", "PropType_PC_Sum", "PropType_SEC_Sum"}
UsableColumns ==
    {c \in train_in.columns :
        ~NotAFeature(c) /\ train_in.dtype[c] \in {"numeric", "category"}}

\* C13: the feature list train_model returns is not empty and holds only
\* numeric or categorical columns, none of them an identifier, a raw price,
\* the target, an intermediate ratio or anchor, or a property-type sum; when
\* no such column exists in the frame train_model raises.
C13_FeatureListPolicy ==
    /\ train_out.kind = "trained" =>
          /\ train_out.features # << >>
          /\ \A k \in 1..Len(train_out.features) :
                /\ train_out.features[k] \in train_in.columns
                /\ train_in.dtype[train_out.features[k]] \in {"numeric", "category"}
                /\ ~NotAFeature(train_out.features[k])
    /\ (train_out # NoCall /\ UsableColumns = {}) => train_out = Raised

\* C13 witness: trained on the full engineered schema, the list is the one
\* the projection is given
C13_Witness ==
    /\ train_out.kind = "trained"
    /\ train_in.columns = UNION {ColumnGroup(g) : g \in GroupNames}
    /\ train_out.features = SavedFeatures

\* a frame that holds excluded columns only is refused
C13_RefusedWitness ==
    /\ train_out = Raised
    /\ train_in.columns = UNION {ColumnGroup(g) : g \in GroupNames \ {"kept", "shares", "certs"}}
    /\ train_in.rows = 1 /\ ~train_in.target_nan
    /\ train_in.prop_type_map = "map" /\ train_in.fit = "ok"

(***************************************************************************)
(* SpecPostcode: the two functions applied to every bounded string.        *)
(***************************************************************************)
InitPostcode ==
    /\ pcIn \in Strings(MaxPcLen) \cup {NoneStr}
    /\ pcDistrict = NoneStr
    /\ pcSector = NoneStr
    /\ pcPhase = "in"
    /\ IngIdle /\ CallIdle /\ ExtIdle
    /\ historical_data = NoneFrame
    /\ certs_agg_df = NoneFrame

ApplyDistrict ==
    /\ pcPhase = "in"
    /\ pcDistrict' = get_postcode_district(pcIn)
    /\ pcPhase' = "district"
    /\ UNCHANGED <<pcIn, pcSector>>
    /\ UNCHANGED <<ingVars, callVars, extVars, historical_data, certs_agg_df>>

ApplySector ==
    /\ pcPhase = "district"
    /\ pcSector' = get_postcode_sector(pcIn)
    /\ pcPhase' = "sector"
    /\ UNCHANGED <<pcIn, pcDistrict>>
    /\ UNCHANGED <<ingVars, callVars, extVars, historical_data, certs_agg_df>>

NextPostcode == ApplyDistrict \/ ApplySector

SpecPostcode == InitPostcode /\ [][NextPostcode]_vars

\* C9: whenever both functions return a value for P, District(P) is a prefix
\* of Sector(P) -- with or without a blank between outward and inward code.
C9_DistrictPrefixOfSector ==
    (pcPhase = "sector" /\ pcDistrict # NoneStr /\ pcSector # NoneStr)
        => IsPrefix(pcDistrict, pcSector)


(***************************************************************************)
(* Properties of predict_future_prices (specification Spec)                *)
(***************************************************************************)
\* the panel the call was given, as it was at the call
PanelGiven == before[1]
\* the months the call plans to predict
Planned == future_dates(last_known_date, args.years_ahead)
\* rows is the first Len(rows) planned months, in order
PlannedPrefix(rows) ==
    /\ Len(rows) <= Len(Planned)
    /\ \A k \in 1..Len(rows) : rows[k].YearMonth = Planned[k]
\* the call passed validation and entered its loop
Entered == pstate # "idle" /\ result # NoneResult
UniqueKeys(h) ==
    \A i, j \in 1..Len(h) :
        (h[i].Postcode = h[j].Postcode /\ h[i].YearMonth = h[j].YearMonth) => i = j

\* C1: every iteration of the loop that runs to its end leaves the maximum
\* month of the per-request history exactly one month later than before it
\* (for the first iteration: one month after the last known date), and the
\* history never holds two rows with the same (Postcode, YearMonth).
C1_HistoryAdvancesOneMonth ==
    [][(step' = step + 1) =>
          /\ MaxMonth(HistoryMonths(current_history')) =
                (IF step = 0 THEN last_known_date
                 ELSE MaxMonth(HistoryMonths(current_history))) + 1
          /\ UniqueKeys(current_history)
          /\ UniqueKeys(current_history')]_vars

\* C1 witness: the third iteration has run, from a history with a real row
C1_Witness ==
    /\ pstate = "loop" /\ step = 3
    /\ history_level = "Postcode"
    /\ Len(current_history) >= 4

\* C2: a call that passed validation and in which no iteration raised
\* returns exactly years_ahead * 12 rows, one per month, consecutive from
\* the month after the last known date, each with a price >= 0.
C2_FullHorizonNonNegative ==
    (pstate = "done" /\ Entered /\ fault = "none") =>
        /\ result.kind = "DataFrame"
        /\ Len(result.rows) = args.years_ahead * 12
        /\ \A k \in 1..Len(result.rows) :
              /\ result.rows[k].YearMonth = last_known_date + k
              /\ result.rows[k].Predicted_Median_Price >= 0

\* C2 witness: a full two-year result from a history of a single month,
\* under a model that returns negative log prices
C2_Witness ==
    /\ pstate = "done" /\ fault = "none" /\ result.kind = "DataFrame"
    /\ args.model = "seasonal" /\ args.years_ahead = 2
    /\ Len(current_history) = 1 + Len(result.rows)
    /\ \E k \in 1..Len(result.rows) : result.rows[k].Predicted_Median_Price = 0
    /\ \E k \in 1..Len(result.rows) : result.rows[k].Predicted_Median_Price > 0

\* the requests C3 names
InvalidRequest ==
    \/ args.postcode_raw = NoneStr
    \/ \A i \in 1..Len(args.postcode_raw) : args.postcode_raw[i] \in Whitespace
    \/ isna(args.years_ahead) \/ args.years_ahead < 1
    \/ args.model = "None"
    \/ args.features_list = NoneList \/ Len(args.features_list) = 0
    \/ PanelGiven = NoneFrame \/ Len(PanelGiven) = 0
    \/ get_postcode_district(Upper(Strip(args.postcode_raw))) = NoneStr
    \/ get_postcode_sector(Upper(Strip(args.postcode_raw))) = NoneStr

\* C3: a call whose postcode is not a non-blank string, whose horizon is not
\* a positive integer, whose model is absent, whose feature list is absent
\* or empty, whose history is absent or empty, or whose postcode does not
\* yield both a district and a sector returns None, without raising and
\* without running any iteration.
C3_InvalidRequestReturnsNone ==
    (pstate # "idle" /\ InvalidRequest) =>
        /\ pstate = "done"
        /\ result = NoneResult
        /\ step = 0 /\ fault = "none"
        /\ predictions = << >> /\ current_history = << >>

\* C3 witness: the only flaw of the request is a postcode without a sector
C3_Witness ==
    /\ pstate = "done" /\ result = NoneResult
    /\ args.postcode_raw = PcNoSector
    /\ args.years_ahead = 1 /\ args.model = "lagged"
    /\ args.features_list \notin {NoneList, << >>}
    /\ IsFrame(PanelGiven) /\ notna(GLOBAL_MIN_DATE)
    /\ args.prop_type_map # "None"

RowsOfPostcode ==
    {i \in 1..Len(PanelGiven) : PanelGiven[i].base.Postcode = PostcodeClean(args)}
PanelMaxMonth == MaxMonth({PanelGiven[i].base.YearMonth : i \in 1..Len(PanelGiven)})

\* C5: for a postcode with no row in the panel the call still returns the
\* full years_ahead * 12 rows, starting the month after the latest month of
\* the whole panel, each labelled "None"; for a postcode with a row every
\* row is labelled "Postcode".  The label never changes within a call.
C5_LabelFollowsInitialHistory ==
    Entered =>
        /\ \A k \in 1..Len(predictions) :
              predictions[k].Based_On_History =
                  (IF RowsOfPostcode = {} THEN "None" ELSE "Postcode")
        /\ (RowsOfPostcode = {} /\ pstate = "done" /\ fault = "none") =>
              /\ result.kind = "DataFrame"
              /\ Len(result.rows) = args.years_ahead * 12
              /\ result.rows[1].YearMonth = PanelMaxMonth + 1
              /\ \A k \in 1..Len(result.rows) : result.rows[k].Based_On_History = "None"

\* C5 witness: a full result for a postcode the panel has no row for
C5_Witness ==
    /\ pstate = "done" /\ fault = "none" /\ result.kind = "DataFrame"
    /\ RowsOfPostcode = {}
    /\ Len(result.rows) = 12
    /\ Len(current_history) = 12

\* C6: a call leaves the panel and the certificate table of its caller as
\* they were: same rows, same values, whatever it appended to its own
\* history; so the panel a later call reads is the one engineer_features
\* returned (or the one the caller held from the start).
C6_CallerFramesUntouched ==
    /\ pstate # "idle" => (historical_df_full = before[1] /\ certs_agg_df = before[2])
    /\ historical_data \in {NoneFrame, fe_df}

\* C6 witness: a call that appended twelve synthetic rows to its history has
\* returned, the caller holding a panel and a certificate table
C6_Witness ==
    /\ pstate = "done" /\ step = 12
    /\ Len(current_history) > 12
    /\ args.history = "historical_data"
    /\ IsFrame(historical_data) /\ IsFrame(certs_agg_df)

\* C8: while GLOBAL_MIN_DATE was never set, predict_future_prices returns
\* None before any iteration, and engineer_features returns an empty panel.
C8_UnsetMinDateFails ==
    isna(GLOBAL_MIN_DATE) =>
        /\ pstate # "idle" =>
              /\ pstate = "done" /\ result = NoneResult
              /\ step = 0 /\ predictions = << >>
        /\ ingPhase = "engineered" => fe_df = EmptyFrame

\* C8 witness: without GLOBAL_MIN_DATE, engineer_features was handed a
\* frame with rows, and a request that is otherwise valid was answered
C8_Witness ==
    /\ isna(GLOBAL_MIN_DATE)
    /\ ingPhase = "engineered" /\ Len(fe_in) > 0
    /\ pstate = "done"
    /\ ~InvalidRequest /\ args.prop_type_map # "None"

\* ---- C14 ----
\* the features of the list that no derivation of the step produces
NeverDerived ==
    FeatureSet(args.features_list)
        \ DerivedFeatures(args.features_list, historical_df_full, static_cert_features)

\* C14: when the feature list names a feature the projection never derives,
\* the projection fails: no prediction is computed from a feature row that
\* holds a substituted value for it.
C14_MissingFeatureFailsLoudly ==
    (/\ pstate # "idle" /\ IsFrame(historical_df_full)
     /\ args.features_list # NoneList /\ NeverDerived # {}) =>
        predictions = << >>

\* ---- C15 ----
\* the month of the feature row, read from its calendar features
XDate == predict_X[<<"Year">>] * 12 + predict_X[<<"Month">>] - 1

\* the step had no value for the feature: nothing derives it, or the month
\* its lag looks at has no row or no value, or the certificate table has no
\* value for the postcode
CertValueMissing(c) ==
    LET hit == IF ~IsFrame(certs_agg_df) THEN {}
               ELSE {j \in 1..Len(certs_agg_df) :
                        certs_agg_df[j].Postcode = PostcodeClean(args)}
    IN  \A j \in hit : \A k \in hit : j <= k =>
            \/ (c \in CertNumeric /\ isna(certs_agg_df[j][c]))
            \/ (c \in CertCategorical /\ certs_agg_df[j][c] = "NaN")
NotPopulated(f, never, d) ==
    \/ f \in never
    \/ /\ f[1] \in LagColumns
       /\ \/ RowsAt(current_history, d - f[2]) = {}
          \/ isna(RowAt(current_history, d - f[2])[LagSource(f[1])])
    \/ f[1] \in CertCategorical /\ CertValueMissing(f[1])
IsCountFeature(f) ==
    f[1] \in {"TransactionCount_Postcode", "TransactionCount_Sector",
              "TransactionCount_District", "CountPc_PC_Lag", "CountSec_SEC_Lag",
              "CountDist_DIST_Lag"}
IsRatioFeature(f) == f[1] \in {"RatioPcS_PC_Lag", "RatioSecD_SEC_Lag"}
IsCategoricalFeature(f) == f[1] = "Cert_TENURE_Agg"

\* C15: the feature row given to the model has exactly the columns of the
\* feature list, in the order of the list, and a feature the step had no
\* value for holds 0 when it is a count, 1.0 when it is a ratio and
\* 'Unknown' when it is categorical.
C15_FeatureRowAligned ==
    predict_X # << >> =>
        /\ DOMAIN predict_X = FeatureSet(args.features_list)
        /\ PredictXColumns(args.features_list) = args.features_list
        /\ LET never == NeverDerived
               d == XDate
           IN  \A f \in DOMAIN predict_X :
                  (IsCountFeature(f) \/ IsRatioFeature(f) \/ IsCategoricalFeature(f)) =>
                    (NotPopulated(f, never, d) =>
                        /\ IsCountFeature(f) => predict_X[f] = 0
                        /\ IsRatioFeature(f) => predict_X[f] = 1000
                        /\ IsCategoricalFeature(f) => predict_X[f] = "Unknown")

\* C15 witness: a feature row that holds the three defaults: a count no
\* derivation produces, a ratio whose lag month has no row, and the tenure
\* of a postcode the certificate table does not hold
C15_Witness ==
    /\ predict_X # << >>
    /\ Len(predictions) > 0
    /\ NotPopulated(<<"TransactionCount_Postcode">>, NeverDerived, XDate)
    /\ predict_X[<<"TransactionCount_Postcode">>] = 0
    /\ NotPopulated(<<"RatioPcS_PC_Lag", 18>>, NeverDerived, XDate)
    /\ predict_X[<<"RatioPcS_PC_Lag", 18>>] = 1000
    /\ NotPopulated(<<"Cert_TENURE_Agg">>, NeverDerived, XDate)
    /\ predict_X[<<"Cert_TENURE_Agg">>] = "Unknown"

(***************************************************************************)
(* predict_price.py: one run of the script behind the price endpoint.      *)
(* Prices are in thousands, growth rates in tenths: a borough mean keeps   *)
(* four decimal digits and a reported price five, so that the compound     *)
(* growth of up to four years and the 0.7/0.3 blend stay exact.            *)
(***************************************************************************)
MaxNumYears == 7            \* the largest num_years a request names
MaxOffset == 4              \* the largest year_offset: range(5)
Pow(b, k) == CASE k = 0 -> 1 [] k = 1 -> b [] k = 2 -> b * b
               [] k = 3 -> b * b * b [] k = 4 -> b * b * b * b
MeanScale == Pow(10, MaxOffset)
PriceScale == 10 * MeanScale

ConfigFiles == {"trained_pipeline.pkl", "postcode_map.json", "borough_stats.json",
                "borough_growth.json"}

\* the helper tables preprocess_helper_data.py writes; both always hold the
\* '_DEFAULT_' entry (its lines 142 and 159), so the literals 800000 and 0.02
\* of the .get calls are never returned
PcE1_6AN  == <<"E", "1", " ", "6", "A", "N">>
PcE1_7AA  == <<"E", "1", " ", "7", "A", "A">>
PcE1_9ZZ  == <<"E", "1", " ", "9", "Z", "Z">>
PcE14_1AA == <<"E", "1", "4", " ", "1", "A", "A">>
PcSW1A_1AA == <<"S", "W", "1", "A", " ", "1", "A", "A">>
PcSW9_1AA == <<"S", "W", "9", " ", "1", "A", "A">>
PcN1_1AA  == <<"N", "1", " ", "1", "A", "A">>
postcode_map ==
    (PcE1_6AN :> "Tower Hamlets") @@ (PcE1_7AA :> "Tower Hamlets")
        @@ (PcSW1A_1AA :> "Westminster")
borough_stats ==
    [b \in {"Tower Hamlets", "Westminster", "_DEFAULT_"} |->
        [mean |-> CASE b = "Tower Hamlets" -> 400 [] b = "Westminster" -> 900
                    [] OTHER -> 600]]
GrowthTables ==
    {[b \in {"Tower Hamlets", "Westminster", "_DEFAULT_"} |->
        CASE b = "Tower Hamlets" -> 1 [] b = "Westminster" -> 0 [] OTHER -> d] : d \in {0, 2}}

\* dict.get(key, default)
get(d, key, default) == IF key \in DOMAIN d THEN d[key] ELSE default

\* lines 30-32
find_borough(postcode, map) == "None"

\* lines 83-98: the borough's mean price grown to the prediction year
get_borough_mean_unadjusted(b, borough_stats_map, borough_growth_rates, prediction_year, base_year_for_growth) ==
    get(borough_stats_map, b, borough_stats_map["_DEFAULT_"]).mean * MeanScale
get_borough_mean(b, borough_stats_map, borough_growth_rates, prediction_year, base_year_for_growth) ==
    LET default_stats == borough_stats_map["_DEFAULT_"]
        default_growth == borough_growth_rates["_DEFAULT_"]
        current_borough_stats == get(borough_stats_map, b, default_stats)
        current_borough_growth == get(borough_growth_rates, b, default_growth)
        offset == prediction_year - base_year_for_growth
        k == IF offset > 0 THEN offset ELSE 0
    IN  current_borough_stats.mean * Pow(10 + current_borough_growth, k)
            * Pow(10, MaxOffset - k)

\* line 44, line 49: pd.to_numeric(errors='coerce').fillna(0), then max(0, x)
property_age(v) == IF v.json = "number" /\ v.value > 0 THEN v.value ELSE 0

\* lines 58-69: np.select over the construction year, default "2001+"
CONSTRUCTION_AGE_BAND(construction_year) ==
    CASE construction_year < 1900 -> "pre1900"
      [] construction_year >= 1900 /\ construction_year <= 1950 -> "1900-1950"
      [] construction_year > 1950 /\ construction_year <= 2000 -> "1951-2000"
      [] construction_year > 2000 -> "2001+"
      [] OTHER -> "2001+"

\* lines 35-120 (the age band, the borough and calendar columns); a request
\* without the property fields fails at line 44 with KeyError
KeyError == [raised |-> "KeyError"]
predictor_engineer_features(df_input, prediction_year, borough_stats_map, borough_growth_rates, base_year_for_growth) ==
    IF ~df_input.has_fields THEN KeyError
    ELSE [borough |-> df_input.borough,
          property_age |-> property_age(df_input.property_age),
          sale_year |-> prediction_year,
          CONSTRUCTION_AGE_BAND |->
              CONSTRUCTION_AGE_BAND(prediction_year - property_age(df_input.property_age)),
          borough_mean_price |->
              get_borough_mean(df_input.borough, borough_stats_map, borough_growth_rates,
                               prediction_year, base_year_for_growth),
          price_to_borough_mean |-> 1]

\* line 262: model_pipeline.predict(...)[0].  The pipeline is given; the model
\* draws it from a family of regressors: what price they return, and whether
\* and at which call they return a non-finite value, raise, or ask for a
\* column the feature row does not have
ModelPrices == {"flat", "by_year", "mean"}
ModelFails == {"never", "nan", "raises", "missing_cols"}
ModelPrice(model, X) ==
    CASE model.price = "flat" -> 500
      [] model.price = "by_year" -> 300 + 50 * (X.sale_year % 10)
      [] model.price = "mean" -> X.borough_mean_price \div MeanScale
ModelFailsAt(model, call) == model.fails # "never" /\ model.fail_at = call

\* lines 271-284: the price reported for a year
BlendedPrice_from_raw_only(raw_model_prediction, offset, price_current_year, growth_rate) ==
    raw_model_prediction * PriceScale
BlendedPrice(raw_model_prediction, offset, price_current_year, growth_rate) ==
    IF offset > 0 /\ price_current_year # NoPrice
    THEN (7 * raw_model_prediction * Pow(10, offset)
            + 3 * price_current_year * Pow(10 + growth_rate, offset))
         * Pow(10, MaxOffset - offset)
    ELSE raw_model_prediction * PriceScale

\* lines 180-183: int(input_data.get("num_years", 1)), then the range test
ClampYears_none(n) == n
ClampYears(n) == IF 1 <= n /\ n <= 5 THEN n ELSE 1
\* the "num_years" member of the request: a number, null, a text that is
\* no number, or absent; the "postcode" member: a string or absent
JsonNumber(n) == [json |-> "number", value |-> n]
JsonOther(what) == [json |-> what, value |-> 0]
AbsentField == <<"absent">>
NumYears(input_data) ==
    IF input_data.num_years.json = "absent" THEN 1 ELSE input_data.num_years.value

\* lines 302-327: the except clauses, in their order
ErrorOf(exc) ==
    CASE exc = "FileNotFoundError" -> [error |-> "Configuration file missing"]
      [] exc = "KeyError" -> [error |-> "Missing expected input field"]
      [] exc = "ValueError" -> [error |-> "Data validation error"]
      [] exc = "ImportError" -> [error |-> "Missing Python library"]
      [] OTHER -> [error |-> "Unexpected prediction error",
                   details |-> exc, traceback |-> "traceback"]
Caught_named_only(exc) ==
    exc \in {"FileNotFoundError", "KeyError", "ValueError", "ImportError"}
Caught(exc) ==
    exc \in {"FileNotFoundError", "KeyError", "ValueError", "ImportError",
             "AttributeError", "TypeError", "RuntimeError"}

\* lines 129-201: what stops the run before the loop, if anything
NoException == "None"
SetupException(in) ==
    IF in.missing # {} THEN "FileNotFoundError"                       \* lines 132-153
    ELSE IF in.stdin \in {"empty", "not_json"} THEN NoException         \* lines 158-171
    ELSE IF in.stdin = "not_object" THEN "AttributeError"               \* line 180
    ELSE IF in.num_years.json = "null" THEN "TypeError"                      \* line 180
    ELSE IF in.num_years.json = "text" THEN "ValueError"                     \* line 180
    ELSE IF in.postcode = AbsentField THEN "KeyError"                      \* line 192
    ELSE NoException
SetupError(in) ==
    IF in.missing # {} THEN NoError
    ELSE IF in.stdin = "empty" THEN [error |-> "No input data received from stdin."]
    ELSE IF in.stdin = "not_json"
         THEN [error |-> "Invalid JSON input", received_data |-> "input_data_str"]
    ELSE NoError

\* an exception inside the try block: the matching except clause sets
\* error_output; an exception no clause matches leaves main
Handle(exc) ==
    IF Caught(exc)
    THEN /\ error_output' = ErrorOf(exc)
         /\ lite_pos' = "final"
         /\ escaped' = escaped
    ELSE /\ error_output' = error_output
         /\ lite_pos' = "done"
         /\ escaped' = exc

otherVars == <<pcVars, ingVars, callVars, trainVars, historical_data, certs_agg_df>>

\* lines 129-213: load the model and the tables, read the request
LiteSetup ==
    /\ lite_pos = "start"
    /\ LET exc == SetupException(lite_in)
           err == SetupError(lite_in)
       IN  IF exc # NoException
           THEN /\ Handle(exc)
                /\ UNCHANGED <<num_years_to_predict, borough, user_input_df>>
           ELSE IF err # NoError
           THEN /\ error_output' = err
                /\ lite_pos' = "final"
                /\ UNCHANGED <<num_years_to_predict, borough, user_input_df, escaped>>
           ELSE /\ num_years_to_predict' = ClampYears(NumYears(lite_in))
                /\ borough' = find_borough(lite_in.postcode, postcode_map)
                /\ user_input_df' =
                      [postcode |-> lite_in.postcode,
                       has_fields |-> lite_in.has_fields,
                       property_age |-> lite_in.property_age,
                       borough |-> IF borough' # "None" THEN borough' ELSE "_DEFAULT_"]
                /\ lite_pos' = "loop"
                /\ UNCHANGED <<error_output, escaped>>
    /\ UNCHANGED <<lite_in, year_offset, user_input_engineered_df,
                   predicted_price_current_year, results_list, stdout, otherVars>>

\* lines 214-300: one iteration of the prediction loop
LiteStep ==
    /\ lite_pos = "loop"
    /\ year_offset < num_years_to_predict
    /\ LET current_year == lite_in.current_year
           prediction_year == current_year + year_offset
           X == predictor_engineer_features(user_input_df, prediction_year, borough_stats,
                                            lite_in.borough_growth_rates, current_year)
           fails == ModelFailsAt(lite_in.model, year_offset)
           raw_model_prediction ==
               IF fails /\ lite_in.model.fails = "nan" THEN NaN
               ELSE ModelPrice(lite_in.model, X)
           price0 == IF year_offset = 0 THEN raw_model_prediction
                     ELSE predicted_price_current_year
           growth_rate == get(lite_in.borough_growth_rates, user_input_df.borough,
                              lite_in.borough_growth_rates["_DEFAULT_"])
           final_predicted_price ==
               IF isna(raw_model_prediction) THEN NaN
               ELSE BlendedPrice(raw_model_prediction, year_offset, price0, growth_rate)
       IN  IF X = KeyError
           THEN /\ Handle("KeyError")
                /\ UNCHANGED <<user_input_engineered_df, predicted_price_current_year,
                               results_list, year_offset>>
           ELSE IF fails /\ lite_in.model.fails = "missing_cols"
           THEN /\ Handle("ValueError")                                \* line 243
                /\ user_input_engineered_df' = X
                /\ UNCHANGED <<predicted_price_current_year, results_list, year_offset>>
           ELSE IF fails /\ lite_in.model.fails = "raises"
           THEN /\ Handle("RuntimeError")                              \* line 262
                /\ user_input_engineered_df' = X
                /\ UNCHANGED <<predicted_price_current_year, results_list, year_offset>>
           ELSE IF isna(final_predicted_price)
           THEN /\ Handle("ValueError")                                \* line 289
                /\ user_input_engineered_df' = X
                /\ predicted_price_current_year' = price0
                /\ UNCHANGED <<results_list, year_offset>>
           ELSE /\ user_input_engineered_df' = X
                /\ predicted_price_current_year' = price0
                /\ results_list' = Append(results_list,
                                          [year |-> prediction_year,
                                           predicted_price |-> final_predicted_price])
                /\ year_offset' = year_offset + 1
                /\ UNCHANGED <<lite_pos, error_output, escaped>>
    /\ UNCHANGED <<lite_in, num_years_to_predict, borough, user_input_df, stdout, otherVars>>

\* line 214: range(num_years_to_predict) is exhausted
LiteLoopEnd ==
    /\ lite_pos = "loop"
    /\ year_offset = num_years_to_predict
    /\ lite_pos' = "final"
    /\ UNCHANGED <<lite_in, num_years_to_predict, borough, user_input_df, year_offset,
                   user_input_engineered_df, predicted_price_current_year, results_list,
                   error_output, stdout, escaped, otherVars>>

\* lines 329-344: the one print to stdout
LiteEmit ==
    /\ lite_pos = "final"
    /\ stdout' = Append(stdout, IF error_output # NoError THEN error_output
                                ELSE [predictions |-> results_list])
    /\ lite_pos' = "done"
    /\ UNCHANGED <<lite_in, num_years_to_predict, borough, user_input_df, year_offset,
                   user_input_engineered_df, predicted_price_current_year, results_list,
                   error_output, escaped, otherVars>>

\* what a run can find
CurrentYears == {2026, 2029}
NumYearsInputs ==
    {JsonOther(w) : w \in {"absent", "null", "text"}}
        \cup {JsonNumber(n) : n \in (-1)..MaxNumYears}
\* ages in years as the request gives them: negative, a house built in 2000
\* or in 1899 seen from 2026, and text
PropertyAges == {JsonNumber(-5), JsonNumber(26), JsonNumber(127), JsonOther("text")}
PostcodeRequests == {AbsentField, PcE1_6AN, PcE1_9ZZ, PcE14_1AA, PcSW9_1AA, PcN1_1AA}
ModelInputs ==
    [price : ModelPrices, fails : {"never"}, fail_at : {0}]
        \cup [price : {"flat"}, fails : ModelFails \ {"never"}, fail_at : {0, 1}]
LiteInputs ==
    [missing : {{}}, stdin : {"object"}, num_years : NumYearsInputs,
     postcode : PostcodeRequests, has_fields : {TRUE}, property_age : PropertyAges,
     model : ModelInputs,
     borough_growth_rates : GrowthTables, current_year : CurrentYears]
    \cup [missing : {{f} : f \in ConfigFiles} \cup {{}},
          stdin : {"empty", "not_json", "not_object", "object"},
          num_years : {JsonNumber(2)}, postcode : {PcE1_6AN}, has_fields : BOOLEAN,
          property_age : {JsonNumber(26)},
          model : ModelInputs, borough_growth_rates : GrowthTables,
          current_year : {2026}]

InitLite ==
    /\ PcIdle /\ IngIdle /\ CallIdle /\ TrainIdle
    /\ historical_data = NoneFrame
    /\ certs_agg_df = NoneFrame
    /\ lite_in \in LiteInputs
    /\ lite_pos = "start"
    /\ num_years_to_predict = 0
    /\ borough = "None"
    /\ user_input_df = << >>
    /\ year_offset = 0
    /\ user_input_engineered_df = << >>
    /\ predicted_price_current_year = NoPrice
    /\ results_list = << >>
    /\ error_output = NoError
    /\ stdout = << >>
    /\ escaped = "None"

NextLite == LiteSetup \/ LiteStep \/ LiteLoopEnd \/ LiteEmit

SpecLite == InitLite /\ [][NextLite]_vars

(***************************************************************************)
(* Properties of predict_price.py (specification SpecLite)                 *)
(***************************************************************************)
\* ---- C16 ----
\* the number of years the run is to predict: the num_years of the request
\* when it is one of 1..5, one year when it is absent or outside 1..5
YearsAsked ==
    IF lite_in.num_years.json = "number" /\ lite_in.num_years.value \in 1..5
    THEN lite_in.num_years.value ELSE 1
\* what the run finds wrong: a config file is missing, stdin is empty, is
\* no JSON or no JSON object, num_years is no number, a property field is
\* missing, the model fails or returns a non-finite value in a year asked for
BadRun ==
    \/ lite_in.missing # {}
    \/ lite_in.stdin # "object"
    \/ lite_in.num_years.json \in {"null", "text"}
    \/ lite_in.postcode = AbsentField
    \/ ~lite_in.has_fields
    \/ (lite_in.model.fails # "never" /\ lite_in.model.fail_at < YearsAsked)
IsErrorObject(o) == "error" \in DOMAIN o /\ "predictions" \notin DOMAIN o
IsPredictionsObject(o) ==
    /\ DOMAIN o = {"predictions"}
    /\ \A i \in 1..Len(o.predictions) :
          /\ DOMAIN o.predictions[i] = {"year", "predicted_price"}
          /\ notna(o.predictions[i].predicted_price)

\* C16: a run of predict_price.py lets no exception escape and, once over,
\* has printed exactly one object: an error object without predictions when
\* a config file is missing, the input is empty, malformed or lacks a field,
\* the model fails or a prediction is not finite, and otherwise a
\* predictions object with one entry for every year asked for.
C16_OneResultObject ==
    /\ escaped = "None"
    /\ Len(stdout) <= 1
    /\ lite_pos = "done" =>
          /\ Len(stdout) = 1
          /\ BadRun => IsErrorObject(stdout[1])
          /\ ~BadRun =>
                /\ IsPredictionsObject(stdout[1])
                /\ Len(stdout[1].predictions) = YearsAsked
                /\ \A i \in 1..YearsAsked :
                      stdout[1].predictions[i].year = lite_in.current_year + i - 1

\* C16 witness: the model returned a non-finite value for the second year,
\* after the first year's price was computed: the run printed an error
C16_Witness ==
    /\ lite_pos = "done"
    /\ lite_in.model.fails = "nan" /\ lite_in.model.fail_at = 1
    /\ Len(results_list) = 1
    /\ Len(stdout) = 1 /\ IsErrorObject(stdout[1])

\* a run that found nothing wrong printed the five years asked for
C16_SuccessWitness ==
    /\ lite_pos = "done" /\ ~BadRun /\ YearsAsked = 5
    /\ IsPredictionsObject(stdout[1]) /\ Len(stdout[1].predictions) = 5

\* ---- C17 ----
\* the part of a postcode before its blank, and sharing the first n characters
OutwardPart(pc) ==
    LET blanks == {i \in 1..Len(pc) : pc[i] = " "}
    IN  IF blanks = {} THEN pc
        ELSE SubSeq(pc, 1, (CHOOSE i \in blanks : \A j \in blanks : i <= j) - 1)
SharePrefix(a, b, n) ==
    Len(a) >= n /\ Len(b) >= n /\ SubSeq(a, 1, n) = SubSeq(b, 1, n)
SomeKeyMatches(pc) ==
    \E key \in DOMAIN postcode_map :
        \/ key = pc
        \/ OutwardPart(key) = OutwardPart(pc)
        \/ SharePrefix(key, pc, 3)
        \/ SharePrefix(key, pc, 2)

\* C17: a postcode that is a key of the postcode map gets that key's
\* borough, and the request is put in the default bucket only when no key
\* equals the postcode, has its outward code, or shares its first three or
\* two characters.
C17_FindBoroughResolves ==
    user_input_df # << >> =>
        /\ lite_in.postcode \in DOMAIN postcode_map =>
              /\ borough = postcode_map[lite_in.postcode]
              /\ user_input_df.borough = postcode_map[lite_in.postcode]
        /\ user_input_df.borough = "_DEFAULT_" => ~SomeKeyMatches(lite_in.postcode)

\* ---- C18 ----
\* the raw model output of the i-th year of the run
RawOf(i) ==
    ModelPrice(lite_in.model,
               predictor_engineer_features(user_input_df, lite_in.current_year + i - 1,
                                           borough_stats, lite_in.borough_growth_rates,
                                           lite_in.current_year))
\* 0.7 * raw + 0.3 * (price0 * (1 + growth)^k), exactly
Blend(raw, price0, growth, k) ==
    (7 * raw * Pow(10, k) + 3 * price0 * Pow(10 + growth, k)) * Pow(10, MaxOffset - k)

\* C18: when find_borough finds no borough the request is put in the
\* '_DEFAULT_' bucket: the adjusted borough mean is the '_DEFAULT_' mean grown
\* at the '_DEFAULT_' rate, the trend of the blend grows at the '_DEFAULT_'
\* rate, and a run with nothing else wrong prints predictions.
C18_MissUsesDefaultBucket ==
    (user_input_df # << >> /\ borough = "None") =>
        LET default_growth == lite_in.borough_growth_rates["_DEFAULT_"]
            default_mean == borough_stats["_DEFAULT_"].mean
        IN  /\ user_input_df.borough = "_DEFAULT_"
            /\ user_input_engineered_df # << >> =>
                  LET k == user_input_engineered_df.sale_year - lite_in.current_year
                  IN  user_input_engineered_df.borough_mean_price =
                          default_mean * Pow(10 + default_growth, k) * Pow(10, MaxOffset - k)
            /\ \A i \in 2..Len(results_list) :
                  results_list[i].predicted_price =
                      Blend(RawOf(i), RawOf(1), default_growth, i - 1)
            /\ (lite_pos = "done" /\ ~BadRun) => IsPredictionsObject(stdout[1])

\* C18 witness: a postcode no key of the map resembles, three years
\* predicted with a default growth rate that is not 0
C18_Witness ==
    /\ lite_pos = "done" /\ borough = "None"
    /\ lite_in.postcode = PcN1_1AA /\ ~SomeKeyMatches(lite_in.postcode)
    /\ lite_in.borough_growth_rates["_DEFAULT_"] = 2
    /\ IsPredictionsObject(stdout[1]) /\ Len(stdout[1].predictions) = 3
    /\ user_input_engineered_df.borough_mean_price > borough_stats["_DEFAULT_"].mean * MeanScale

\* ---- C19 ----
\* C19: the price reported for the first year is the raw model output; the
\* price reported for year offset k >= 1 is 0.7 times the raw model output of
\* that year plus 0.3 times the first year's reported price grown k years at
\* the borough's growth rate.
C19_BlendedPrices ==
    \A i \in 1..Len(results_list) :
        LET growth_rate == get(lite_in.borough_growth_rates, user_input_df.borough,
                               lite_in.borough_growth_rates["_DEFAULT_"])
            year0 == results_list[1].predicted_price
        IN  IF i = 1
            THEN results_list[1].predicted_price = RawOf(1) * PriceScale
            ELSE /\ year0 % PriceScale = 0
                 /\ results_list[i].predicted_price =
                        Blend(RawOf(i), year0 \div PriceScale, growth_rate, i - 1)

\* C19 witness: five years of a model whose output rises by the year, the
\* borough growing; the fifth price is not the raw output of its year
C19_Witness ==
    /\ Len(results_list) = 5
    /\ lite_in.model.price = "by_year"
    /\ lite_in.borough_growth_rates[user_input_df.borough] = 2
    /\ results_list[5].predicted_price # RawOf(5) * PriceScale
    /\ RawOf(5) # RawOf(1)

\* ---- C20 ----
\* C20: a predictions object holds 1 to 5 entries, their years consecutive
\* from the current year: as many as num_years when num_years is one of 1..5.
C20_YearsBounded ==
    (lite_pos = "done" /\ Len(stdout) = 1 /\ "predictions" \in DOMAIN stdout[1]) =>
        LET p == stdout[1].predictions
        IN  /\ Len(p) >= 1 /\ Len(p) <= 5
            /\ (lite_in.num_years.json = "number" /\ lite_in.num_years.value \in 1..5) =>
                  Len(p) = lite_in.num_years.value
            /\ \A i \in 1..Len(p) : p[i].year = lite_in.current_year + i - 1

\* C20 witness: four years were asked for and four consecutive years printed
C20_Witness ==
    /\ lite_pos = "done" /\ lite_in.num_years = JsonNumber(4)
    /\ "predictions" \in DOMAIN stdout[1]
    /\ Len(stdout[1].predictions) = 4
    /\ stdout[1].predictions[4].year = lite_in.current_year + 3

\* a request for more than five years, or for none, was answered with one
C20_ClampedWitness ==
    /\ lite_pos = "done"
    /\ lite_in.num_years \in {JsonNumber(MaxNumYears), JsonNumber(0)}
    /\ "predictions" \in DOMAIN stdout[1]
    /\ Len(stdout[1].predictions) = 1

(***************************************************************************)
(* Properties of the feature derivations (specifications Spec, SpecIngest) *)
(***************************************************************************)
\* a per-month step that got as far as writing predict_X
StepWritesX ==
    /\ pstate = "loop"
    /\ \/ step' = step + 1
       \/ pstate' = "done" /\ fault' \in {"predict", "newrow", "concat"}
\* the month of the step that is about to run
StepDate == future_dates(last_known_date, args.years_ahead)[step + 1]

\* ---- C21 ----
\* the column of the history a lag feature reads, and the documented default
LagReads(col) ==
    CASE col = "LogPrice_PC_Lag" -> "LogMedianPrice_Postcode"
      [] col = "RatioPcS_PC_Lag" -> "PriceRatio_PC_SEC"
      [] col = "RatioSecD_SEC_Lag" -> "PriceRatio_SEC_DIST"
      [] col = "CountPc_PC_Lag" -> "TransactionCount_Postcode"
      [] col = "CountSec_SEC_Lag" -> "TransactionCount_Sector"
      [] col = "CountDist_DIST_Lag" -> "TransactionCount_District"
DocumentedDefault(col) ==
    IF col \in {"RatioPcS_PC_Lag", "RatioSecD_SEC_Lag"} THEN 1000 ELSE 0
StoredAt(h, month, col) ==
    LET at == {i \in 1..Len(h) : h[i].YearMonth = month}
    IN  IF at = {} THEN NaN
        ELSE h[CHOOSE i \in at : \A j \in at : i <= j][LagReads(col)]

\* C21: in the step for month m every lag-L feature is the value the
\* per-request history holds at month m-L, real or synthetic, and the
\* documented default when the history has no row (or no value) there; from
\* the second projected month on LogPrice_PC_Lag_1m is the log price the
\* previous step predicted.
C21_LagsReadHistory ==
    [][StepWritesX =>
          /\ \A f \in DOMAIN predict_X' :
                (Len(f) = 2 /\ f[1] \in LagColumns) =>
                    LET stored == StoredAt(current_history, StepDate - f[2], f[1])
                    IN  predict_X'[f] = IF isna(stored) THEN DocumentedDefault(f[1])
                                        ELSE stored
          /\ (step >= 1 /\ notna(ModelPredict(args.model, predict_X))) =>
                predict_X'[<<"LogPrice_PC_Lag", 1>>] = ModelPredict(args.model, predict_X)
    ]_vars

\* C21 witness: in the third projected month the 1-month lag is the log
\* price of a synthetic row, the 3-month lag that of a real row, and the
\* 18-month lag the default
C21_Witness ==
    /\ pstate = "loop" /\ step = 3
    /\ StoredAt(current_history, XDate - 1, "LogPrice_PC_Lag") > 0
    /\ XDate - 1 > last_known_date
    /\ predict_X[<<"LogPrice_PC_Lag", 1>>] = StoredAt(current_history, XDate - 1, "LogPrice_PC_Lag")
    /\ XDate - 3 <= last_known_date
    /\ notna(StoredAt(current_history, XDate - 3, "LogPrice_PC_Lag"))
    /\ predict_X[<<"LogPrice_PC_Lag", 3>>] = StoredAt(current_history, XDate - 3, "LogPrice_PC_Lag")
    /\ isna(StoredAt(current_history, XDate - 18, "RatioPcS_PC_Lag"))
    /\ predict_X[<<"RatioPcS_PC_Lag", 18>>] = 1000

\* ---- C22 ----
\* the rows the loop appended to the per-request history
SyntheticRows == {i \in 1..Len(current_history) :
                     current_history[i].YearMonth > last_known_date}
CarriedColumns == {"MedianPrice_Sector", "MedianPrice_District",
                   "TransactionCount_Sector", "TransactionCount_District"}

\* C22: a synthetic row holds the month's predicted price as
\* MedianPrice_Postcode and 1 as TransactionCount_Postcode; its sector and
\* district medians and counts are those of the previous month's row when
\* that row exists and holds them, and they are the same in every synthetic
\* row of the run.
C22_SyntheticRowsCarryForward ==
    pstate # "idle" =>
        \A i \in SyntheticRows :
            LET r == current_history[i]
                before_r == {j \in 1..Len(current_history) :
                                current_history[j].YearMonth = r.YearMonth - 1}
            IN  /\ r.TransactionCount_Postcode = 1
                /\ \E k \in 1..Len(predictions) :
                      /\ predictions[k].YearMonth = r.YearMonth
                      /\ predictions[k].Predicted_Median_Price = r.MedianPrice_Postcode
                /\ \A j \in before_r : \A c \in CarriedColumns :
                      notna(current_history[j][c]) => r[c] = current_history[j][c]
                /\ \A j \in SyntheticRows : \A c \in CarriedColumns :
                      current_history[j][c] = r[c]

\* C22 witness: three synthetic rows after a real row of the postcode whose
\* sector and district medians they carry
C22_Witness ==
    /\ pstate = "loop" /\ step = 3
    /\ Cardinality(SyntheticRows) = 3
    /\ \E j \in 1..Len(current_history) :
          /\ current_history[j].YearMonth = last_known_date
          /\ current_history[j].MedianPrice_Sector > 0
          /\ \A i \in SyntheticRows :
                /\ current_history[i].MedianPrice_Sector = current_history[j].MedianPrice_Sector
                /\ current_history[i].TransactionCount_District
                       = current_history[j].TransactionCount_District

\* ---- C23 ----
\* the lag feature the projection step would derive for a month from the
\* rows of the postcode in a panel
InferenceLag(panel, postcode, month, col, lag) ==
    LagFeature(HistoryOf(panel, postcode, << >>), month, col, lag)

\* every row of the combined panel with its engineered columns, the rows the
\* final cleanup drops included: the whole real history
FullHistory ==
    LET b == WithBase(sort_values(fe_in), GLOBAL_MIN_DATE)
    IN  [i \in 1..Len(b) |-> Engineered(b, i)]

\* C23: for every row (P, t) of the real history, each lag feature
\* engineer_features stored equals the one the projection step derives for
\* month t from the history of P before t.
C23_TrainingInferenceLagsAgree ==
    (ingPhase = "engineered" /\ fe_in # EmptyFrame /\ notna(GLOBAL_MIN_DATE)) =>
        \A i \in 1..Len(FullHistory) : \A col \in LagColumns : \A lag \in Lags :
            FeatureValue(FullHistory[i], <<col, lag>>)
                = InferenceLag(FullHistory, FullHistory[i].base.Postcode,
                               FullHistory[i].base.YearMonth, col, lag)

\* ---- C24 ----
\* the group column and the count column of a rolling count (lines 472-476)
RollGroup(col) ==
    CASE col = "TxCount_PC_Roll" -> "Postcode"
      [] col = "TxCount_SEC_Roll" -> "PostcodeSector"
      [] col = "TxCount_DIST_Roll" -> "PostcodeDistrict"
RollSource(col) ==
    CASE col = "TxCount_PC_Roll" -> "TransactionCount_Postcode"
      [] col = "TxCount_SEC_Roll" -> "TransactionCount_Sector"
      [] col = "TxCount_DIST_Roll" -> "TransactionCount_District"

\* the months before `month` in which the geography group of row e has rows
EarlierPeriods(e, col) ==
    {fe_in[j].YearMonth : j \in {k \in 1..Len(fe_in) :
        /\ fe_in[k][RollGroup(col)] = e.base[RollGroup(col)]
        /\ fe_in[k].YearMonth < e.base.YearMonth}}

\* the count of the group of row e in one of its months
PeriodCount(e, col, month) ==
    LET j == CHOOSE k \in 1..Len(fe_in) :
                /\ fe_in[k][RollGroup(col)] = e.base[RollGroup(col)]
                /\ fe_in[k].YearMonth = month
    IN  fe_in[j][RollSource(col)]

RECURSIVE SumOver(_, _, _)
SumOver(e, col, months) ==
    IF months = {} THEN 0
    ELSE LET m == CHOOSE x \in months : TRUE
         IN  PeriodCount(e, col, m) + SumOver(e, col, months \ {m})

\* C24: every rolling count of an engineered row is the sum of the counts
\* of at most W periods of the row's own geography group, all strictly
\* earlier than the row's month.
C24_RollingCountsOwnGroupEarlier ==
    (ingPhase = "engineered" /\ fe_df # EmptyFrame) =>
        \A i \in 1..Len(fe_df) : \A col \in RollColumns : \A w \in Windows :
            \E S \in SUBSET EarlierPeriods(fe_df[i], col) :
                /\ Cardinality(S) <= w
                /\ fe_df[i][col][w] = SumOver(fe_df[i], col, S)

\* ---- C25 ----
\* the rows of the combined panel of a geography group in one month
GroupRowsAt(group_col, group, month) ==
    {k \in 1..Len(fe_in) : fe_in[k][group_col] = group /\ fe_in[k].YearMonth = month}

\* C25: an engineered row whose sector has transactions in the month before
\* its own has that month's sector median as its sector anchor, and the same
\* for the district.
C25_AnchorsArePreviousMonthMedians ==
    (ingPhase = "engineered" /\ fe_df # EmptyFrame) =>
        \A i \in 1..Len(fe_df) :
            LET e == fe_df[i].base
            IN  /\ \A k \in GroupRowsAt("PostcodeSector", e.PostcodeSector, e.YearMonth - 1) :
                       e.MedianPrice_Sector_Anchor_Lag1m = fe_in[k].MedianPrice_Sector
                /\ \A k \in GroupRowsAt("PostcodeDistrict", e.PostcodeDistrict, e.YearMonth - 1) :
                       e.MedianPrice_District_Anchor_Lag1m = fe_in[k].MedianPrice_District

\* ---- C26 ----
\* the sorted combined panel with its base columns (lines 370-412)
BasePanel == WithBase(sort_values(fe_in), GLOBAL_MIN_DATE)

\* C26: no row of the engineered panel lacks the log-price target or has a
\* missing raw 18-month district count lag.
C26_RowsWithoutFullDepthLagDropped ==
    (ingPhase = "engineered" /\ fe_in # EmptyFrame /\ notna(GLOBAL_MIN_DATE)) =>
        \A i \in 1..Len(BasePanel) :
            (\/ isna(BasePanel[i].LogMedianPrice_Postcode)
             \/ isna(RawLags(BasePanel, i).CountDist_DIST_Lag[MaxLag]))
                => \A j \in 1..Len(fe_df) : fe_df[j] # Engineered(BasePanel, i)

\* ---- C27 ----
\* the first present value of a priority list, 0 when none is present
FirstPresent(values) ==
    LET present == {k \in 1..Len(values) : notna(values[k])}
    IN  IF present = {} THEN 0
        ELSE values[CHOOSE k \in present : \A m \in present : k <= m]

\* the rows of the sorted combined panel an engineered row comes from
SourceRows(e) ==
    {i \in 1..Len(BasePanel) : /\ BasePanel[i].Postcode = e.base.Postcode
                               /\ BasePanel[i].PostcodeDistrict = e.base.PostcodeDistrict
                               /\ BasePanel[i].YearMonth = e.base.YearMonth}

ShareFeatures(X) == {f \in DOMAIN X : Len(f) = 3 /\ f[1] \in PercColumns}

\* the rolling count of the level and window of a share
RollOfPerc(col) ==
    CASE col = "PropType_PC_Perc" -> "TxCount_PC_Roll"
      [] col = "PropType_SEC_Perc" -> "TxCount_SEC_Roll"
      [] col = "PropType_DIST_Perc" -> "TxCount_DIST_Roll"

\* a share of a window is a fraction, and 0 when the window is empty
ShareInRange(share, window_count) ==
    /\ share >= 0 /\ share <= 1000
    /\ window_count = 0 => share = 0

\* C28: every rolling property-type share, in the engineered panel and in
\* the feature row of every projection step, lies between 0 and 1 and is 0
\* when the transaction count of its window is 0.
C28_SharesBetweenZeroAndOne ==
    /\ (IsFrame(historical_data) /\ historical_data # EmptyFrame) =>
          \A i \in 1..Len(historical_data) : \A col \in PercColumns :
          \A t \in DOMAIN historical_data[i][col] : \A w \in Windows :
              ShareInRange(historical_data[i][col][t][w],
                           historical_data[i][RollOfPerc(col)][w])
    /\ \A f \in ShareFeatures(predict_X) :
          ShareInRange(predict_X[f],
                       IF <<RollOfPerc(f[1]), f[3]>> \in DOMAIN predict_X
                       THEN predict_X[<<RollOfPerc(f[1]), f[3]>>] ELSE 1)

\* ---- C29 ----
\* the certificate table holds no row for the postcode of the request
NoCertData ==
    \/ certs_agg_df \in {NoneFrame, EmptyFrame}
    \/ \A j \in 1..Len(certs_agg_df) : certs_agg_df[j].Postcode # PostcodeClean(args)

\* the certificate features of a feature row
CertFeatures(X) == {f \in DOMAIN X : Len(f) = 1 /\ f[1] \in CertCategorical \cup CertNumeric}

\* C29: for a postcode without certificate data, every certificate feature
\* of the feature row of a projection step is the one fixed at the start of
\* the run, 'Unknown' when categorical, and equal to the value the rows of
\* the postcode have in the engineered panel.
C29_CertDefaultsAgree ==
    (pstate = "loop" /\ step >= 1 /\ IsFrame(historical_df_full) /\ NoCertData) =>
        \A f \in CertFeatures(predict_X) :
            /\ predict_X[f] = static_cert_features[f[1]]
            /\ f[1] \in CertCategorical => predict_X[f] = "Unknown"
            /\ \A i \in 1..Len(historical_df_full) :
                   historical_df_full[i].base.Postcode = PostcodeClean(args)
                       => predict_X[f] = historical_df_full[i].base[f[1]]

(***************************************************************************)
(* Properties of the construction-age band (specification SpecLite)        *)
(***************************************************************************)
AgeBands == {"pre1900", "1900-1950", "1951-2000", "2001+"}

\* the feature row of a year was engineered
Engineered_X(X) == X # << >> /\ X # KeyError

\* C30: the construction-age band of every engineered feature row is one of
\* the four bands, and the rows of two successive years of a request carry
\* the same band.
C30_AgeBandConstant ==
    [][/\ Engineered_X(user_input_engineered_df') =>
             user_input_engineered_df'.CONSTRUCTION_AGE_BAND \in AgeBands
       /\ (Engineered_X(user_input_engineered_df) /\ Engineered_X(user_input_engineered_df')) =>
             user_input_engineered_df'.CONSTRUCTION_AGE_BAND
                 = user_input_engineered_df.CONSTRUCTION_AGE_BAND]_vars

====
